---- MODULE Spec2Model ----
(***************************************************************************)
(* A model of the arXiv PDF download / dedup / retry pipeline              *)
(* (download.py, retry.py).                                                *)
(*                                                                         *)
(* Strings that the code takes apart (identities, facets, file names) are  *)
(* tuples of one-character strings, so that sanitize_filename and          *)
(* sanitize_for_dirname are computed character by character as the code    *)
(* computes them.  The empty tuple stands for both None and "" (Python     *)
(* treats both as false in every test the code makes).                     *)
(***************************************************************************)
EXTENDS Integers, Sequences, FiniteSets, TLC

(***************************************************************************)
(* Bounds of the model.                                                    *)
(***************************************************************************)
\* --workers takes the values 1..MaxWorkers
MaxWorkers == 2
\* number of successive runs that merge their failures into one ledger
MaxMerges == 3
\* longest new_failures list handed to append_to_failed_log
MaxFailures == 2

(***************************************************************************)
(* Program constants.                                                      *)
(***************************************************************************)
KeywordMaxLen == 35
CategoryMaxLen == 25
FilenameMaxLen == 60

(***************************************************************************)
(* Characters and strings.                                                 *)
(***************************************************************************)
Digits == {"0", "1", "2", "3", "4", "5", "6", "7", "8", "9"}

Lower == {"a", "b", "c", "d", "e", "f", "g", "h", "i", "j", "k", "l", "m",
          "n", "o", "p", "q", "r", "s", "t", "u", "v", "w", "x", "y", "z"}

Upper == {"A", "B", "C", "D", "E", "F", "G", "H", "I", "J", "K", "L", "M",
          "N", "O", "P", "Q", "R", "S", "T", "U", "V", "W", "X", "Y", "Z"}

\* the character class [a-zA-Z0-9_.-] of sanitize_for_dirname
DirnameChars == Lower \cup Upper \cup Digits \cup {"_", ".", "-"}

None == << >>

\* Python truthiness of a str-or-None value
Truthy(s) == s /= None

\* name.replace('/', '_')
sanitize_filename(name) ==
    [i \in DOMAIN name |-> IF name[i] = "/" THEN "_" ELSE name[i]]

\* re.sub(r'[^a-zA-Z0-9_.-]+', '_', text): every maximal run of characters
\* outside the class becomes one underscore
RECURSIVE SubDisallowedRuns(_)
SubDisallowedRuns(s) ==
    IF s = << >> THEN << >>
    ELSE LET h == Head(s)
             t == Tail(s)
         IN  IF h \in DirnameChars THEN <<h>> \o SubDisallowedRuns(t)
             ELSE IF t /= << >> /\ Head(t) \notin DirnameChars
                  THEN SubDisallowedRuns(t)
                  ELSE <<"_">> \o SubDisallowedRuns(t)

\* re.sub(r'_+', '_', sanitized)
RECURSIVE CollapseUnderscores(_)
CollapseUnderscores(s) ==
    IF s = << >> THEN << >>
    ELSE LET h == Head(s)
             t == Tail(s)
         IN  IF h = "_" /\ t /= << >> /\ Head(t) = "_"
             THEN CollapseUnderscores(t)
             ELSE <<h>> \o CollapseUnderscores(t)

StripLeading(s) == IF s /= << >> /\ Head(s) = "_" THEN Tail(s) ELSE s

StripTrailing(s) ==
    IF s /= << >> /\ s[Len(s)] = "_" THEN SubSeq(s, 1, Len(s) - 1) ELSE s

sanitize_for_dirname(text, max_len) ==
    LET sanitized ==
            StripTrailing(StripLeading(CollapseUnderscores(SubDisallowedRuns(text))))
    IN  IF max_len > 0 /\ Len(sanitized) > max_len
        THEN SubSeq(sanitized, 1, max_len)
        ELSE sanitized

\* "_".join(parts) for a list of strings
RECURSIVE JoinUnderscore(_)
JoinUnderscore(parts) ==
    IF parts = << >> THEN << >>
    ELSE IF Len(parts) = 1 THEN parts[1]
    ELSE parts[1] \o <<"_">> \o JoinUnderscore(Tail(parts))

KwPrefix == <<"k", "w", "_">>
CatPrefix == <<"c", "a", "t", "_">>
UnknownQueryParameters ==
    <<"u","n","k","n","o","w","n","_","q","u","e","r","y","_",
      "p","a","r","a","m","e","t","e","r","s">>
GeneralArxivDownloads ==
    <<"g","e","n","e","r","a","l","_","a","r","x","i","v","_",
      "d","o","w","n","l","o","a","d","s">>

AllDigits(s) == \A i \in DOMAIN s : s[i] \in Digits

\* re.search(r'(_\d{8}_\d{6})$', stem): the stem ends in _YYYYMMDD_HHMMSS
HasTimestampSuffix(stem) ==
    LET n == Len(stem)
    IN  /\ n >= 16
        /\ stem[n - 15] = "_"
        /\ AllDigits(SubSeq(stem, n - 14, n - 7))
        /\ stem[n - 6] = "_"
        /\ AllDigits(SubSeq(stem, n - 5, n))

\* the JSON-file-name fallback of download_pdfs_from_json
FilenameFallback(stem) ==
    LET stripped == IF HasTimestampSuffix(stem)
                    THEN SubSeq(stem, 1, Len(stem) - 16)
                    ELSE stem
        name == sanitize_for_dirname(stripped, FilenameMaxLen)
    IN  IF Truthy(name) THEN name ELSE UnknownQueryParameters

\* the list subdir_name_parts
SubdirNameParts(keyword, category) ==
    (IF Truthy(keyword)
     THEN << KwPrefix \o sanitize_for_dirname(keyword, KeywordMaxLen) >>
     ELSE << >>)
    \o
    (IF Truthy(category)
     THEN << CatPrefix \o sanitize_for_dirname(category, CategoryMaxLen) >>
     ELSE << >>)

\* a subdirectory name that is always taken from the name of the JSON file
pdf_output_subdir_name_FromFile(keyword, category, stem) ==
    FilenameFallback(stem)

\* pdf_output_subdir_name of download_pdfs_from_json
pdf_output_subdir_name(keyword, category, stem) ==
    LET parts == SubdirNameParts(keyword, category)
        joined == JoinUnderscore(SelectSeq(parts, Truthy))
        name == IF parts /= << >>
                THEN (IF Truthy(joined) THEN joined ELSE FilenameFallback(stem))
                ELSE FilenameFallback(stem)
    IN  IF Truthy(name) THEN name ELSE GeneralArxivDownloads

(***************************************************************************)
(* URLs.  A URL is a pair <<host, identity>>; the mirror URL is built from *)
(* the identity, a primary URL comes with the record.                      *)
(***************************************************************************)
ExportMirrorUrl(entry_id) == <<"export.arxiv.org", entry_id>>

Inf == 99

\* the elapsed times measure_speed can return: two finite times and +infinity
Speeds == {1, 2, Inf}

\* choose_best_download_url without its last line: None when every probe
\* failed
choose_best_download_url_NoFallback(entry_id, primary_pdf_url, s_primary, s_mirror) ==
    LET export_mirror_url == ExportMirrorUrl(entry_id)
    IN  IF ~Truthy(primary_pdf_url) \/ export_mirror_url = primary_pdf_url
        THEN <<export_mirror_url, 0>>
        ELSE IF s_primary = Inf /\ s_mirror = Inf THEN <<None, 2>>
        ELSE IF s_mirror < s_primary THEN <<export_mirror_url, 2>>
        ELSE <<primary_pdf_url, 2>>

\* choose_best_download_url measuring the only candidate it has
choose_best_download_url_ProbesSingle(entry_id, primary_pdf_url, s_primary, s_mirror) ==
    LET export_mirror_url == ExportMirrorUrl(entry_id)
    IN  IF ~Truthy(primary_pdf_url) THEN <<export_mirror_url, 1>>
        ELSE IF export_mirror_url = primary_pdf_url THEN <<primary_pdf_url, 1>>
        ELSE IF s_mirror < s_primary THEN <<export_mirror_url, 2>>
        ELSE <<primary_pdf_url, 2>>

\* choose_best_download_url of download.py; s_primary and s_mirror are what
\* measure_speed returns for the two candidates.  Returns <<url, probes>>.
choose_best_download_url(entry_id, primary_pdf_url, s_primary, s_mirror) ==
    LET export_mirror_url == ExportMirrorUrl(entry_id)
        has_primary == Truthy(primary_pdf_url)
        has_mirror == export_mirror_url /= primary_pdf_url
    IN  IF ~has_primary /\ ~has_mirror THEN <<None, 0>>
        ELSE IF has_primary /\ ~has_mirror THEN <<primary_pdf_url, 0>>
        ELSE IF ~has_primary /\ has_mirror THEN <<export_mirror_url, 0>>
        ELSE \* the loop over speeds: "primary" first, then "export_mirror"
             LET min1 == IF s_primary < Inf THEN s_primary ELSE Inf
                 best1 == IF s_primary < Inf THEN "primary" ELSE "none"
                 min_speed == IF s_mirror < min1 THEN s_mirror ELSE min1
                 best_source_name ==
                     IF s_mirror < min1 THEN "export_mirror" ELSE best1
             IN  IF best_source_name /= "none" /\ min_speed /= Inf
                 THEN (IF best_source_name = "primary"
                       THEN <<primary_pdf_url, 2>>
                       ELSE <<export_mirror_url, 2>>)
                 ELSE <<primary_pdf_url, 2>>

\* min(speeds, key=speeds.get) keeping the last of several smallest keys
MinKey_LastOnTies(names, speeds) ==
    LET k == CHOOSE k \in 1..Len(names) :
                 /\ \A j \in 1..Len(names) : speeds[names[k]] <= speeds[names[j]]
                 /\ \A j \in (k+1)..Len(names) : speeds[names[j]] > speeds[names[k]]
    IN  names[k]

\* min(speeds, key=speeds.get, default=None) over a dict whose keys, in
\* insertion order, are names: the first key with the smallest value
MinKey(names, speeds) ==
    IF names = << >> THEN "none"
    ELSE LET k == CHOOSE k \in 1..Len(names) :
                      /\ \A j \in 1..Len(names) : speeds[names[k]] <= speeds[names[j]]
                      /\ \A j \in 1..(k-1) : speeds[names[j]] > speeds[names[k]]
         IN  names[k]

\* choose_best_download_url of retry.py: the same candidates, the best one
\* taken with min.  Returns <<url, probes>>.
retry_choose_best_download_url(entry_id, primary_pdf_url, s_primary, s_mirror) ==
    LET export_mirror_url == ExportMirrorUrl(entry_id)
        names == (IF Truthy(primary_pdf_url) THEN <<"primary">> ELSE << >>)
                 \o (IF export_mirror_url /= primary_pdf_url
                     THEN <<"export_mirror">> ELSE << >>)
        urls_to_test == [primary |-> primary_pdf_url,
                         export_mirror |-> export_mirror_url]
    IN  IF names = << >> THEN <<None, 0>>
        ELSE IF Len(names) = 1 THEN <<urls_to_test[names[1]], 0>>
        ELSE LET speeds == [primary |-> s_primary, export_mirror |-> s_mirror]
                 best_source_name == MinKey(names, speeds)
             IN  IF best_source_name /= "none" /\ speeds[best_source_name] /= Inf
                 THEN <<urls_to_test[best_source_name], Len(names)>>
                 ELSE <<(IF Truthy(primary_pdf_url) THEN primary_pdf_url
                         ELSE export_mirror_url), Len(names)>>

Policies == {"primary", "export", "fastest"}

\* a resolution in which "export" falls back to the mirror only when the
\* record has no primary URL
ResolveUrl_ExportAsPrimary(paper, download_source_preference, s_primary, s_mirror) ==
    IF download_source_preference = "fastest"
    THEN choose_best_download_url(paper.entry_id, paper.pdf_url, s_primary, s_mirror)
    ELSE IF Truthy(paper.pdf_url) THEN <<paper.pdf_url, 0>>
    ELSE <<ExportMirrorUrl(paper.entry_id), 0>>

\* download_url_to_use of download_single_pdf, with the number of probes made
ResolveUrl(paper, download_source_preference, s_primary, s_mirror) ==
    IF download_source_preference = "export"
    THEN <<ExportMirrorUrl(paper.entry_id), 0>>
    ELSE IF download_source_preference = "fastest"
    THEN choose_best_download_url(paper.entry_id, paper.pdf_url, s_primary, s_mirror)
    ELSE IF Truthy(paper.pdf_url) THEN <<paper.pdf_url, 0>>
    ELSE <<ExportMirrorUrl(paper.entry_id), 0>>

(***************************************************************************)
(* Records.  A paper is the dict of the input JSON; a failure record is    *)
(* the same dict with _failure_reason and _original_input_json set; a      *)
(* retry pass adds _retry_attempt_failed_reason and _last_retry_timestamp  *)
(* ("", None and 0 stand for an absent key).                               *)
(***************************************************************************)
Paper(entry_id, pdf_url, title) ==
    [entry_id |-> entry_id, pdf_url |-> pdf_url, title |-> title,
     primary_category |-> None,
     failure_reason |-> "", original_input_json |-> None,
     retry_attempt_failed_reason |-> "", last_retry_timestamp |-> 0]

\* original_paper_details.copy() with the two failure fields set
FailureRecord(original_paper_details, detail_msg, json_file_path) ==
    [original_paper_details EXCEPT !.failure_reason = detail_msg,
                                   !.original_input_json = json_file_path]

\* {paper.get('entry_id'): paper for paper in papers if paper.get('entry_id')}
\* as the list of its values in insertion order: a key keeps the place of its
\* first occurrence and the value of its last
RECURSIVE DictPut(_, _)
DictPut(map, paper) ==
    IF map = << >> THEN << paper >>
    ELSE IF Head(map).entry_id = paper.entry_id THEN << paper >> \o Tail(map)
    ELSE << Head(map) >> \o DictPut(Tail(map), paper)

RECURSIVE DictFromPapers(_)
DictFromPapers(papers) ==
    IF papers = << >> THEN << >>
    ELSE LET front == SubSeq(papers, 1, Len(papers) - 1)
             last == papers[Len(papers)]
         IN  IF Truthy(last.entry_id)
             THEN DictPut(DictFromPapers(front), last)
             ELSE DictFromPapers(front)

HasKey(map, entry_id) == \E j \in DOMAIN map : map[j].entry_id = entry_id

\* paper_map.get(entry_id)
DictGet(map, entry_id) ==
    map[CHOOSE j \in DOMAIN map : map[j].entry_id = entry_id]

(***************************************************************************)
(* The failure ledger file and append_to_failed_log.                       *)
(* content: "json" a parseable document, "zero" a file of size 0, "bad" a  *)
(* file json.load cannot parse.                                            *)
(***************************************************************************)
AbsentLedger == [exists |-> FALSE, content |-> "json", papers |-> << >>, stamp |-> 0]

LedgerFile(papers, stamp) ==
    [exists |-> TRUE, content |-> "json", papers |-> papers, stamp |-> stamp]

\* a merge that does not read the ledger it is about to write
ExistingFailuresPapers_NotRead(L) == << >>

\* existing_failures_papers after the read at the top of append_to_failed_log
ExistingFailuresPapers(L) ==
    IF L.exists /\ L.content = "json" THEN L.papers ELSE << >>

\* MergeOne without the test "entry_id not in combined_failures_map"
MergeOne_NoDedup(st, paper) ==
    IF Truthy(paper.entry_id)
    THEN [st EXCEPT !.map = Append(st.map, paper), !.added = st.added + 1]
    ELSE [st EXCEPT !.existing = Append(st.existing, paper)]

\* MergeOne with combined_failures_map[entry_id] = paper in place of "pass"
MergeOne_Overwrite(st, paper) ==
    IF Truthy(paper.entry_id)
    THEN IF ~HasKey(st.map, paper.entry_id)
         THEN [st EXCEPT !.map = Append(st.map, paper), !.added = st.added + 1]
         ELSE [st EXCEPT !.map = DictPut(st.map, paper), !.added = st.added + 1]
    ELSE [st EXCEPT !.existing = Append(st.existing, paper)]

\* one pass of "for paper in new_failures" over the state
\* [map, existing, added]
MergeOne(st, paper) ==
    IF Truthy(paper.entry_id)
    THEN IF ~HasKey(st.map, paper.entry_id)
         THEN [st EXCEPT !.map = Append(st.map, paper), !.added = st.added + 1]
         ELSE st
    ELSE [st EXCEPT !.existing = Append(st.existing, paper)]

RECURSIVE MergeLoop(_, _)
MergeLoop(st, new_failures) ==
    IF new_failures = << >> THEN st
    ELSE MergeLoop(MergeOne(st, Head(new_failures)), Tail(new_failures))

\* the loop that adds the records without entry_id back to updated_papers_list
RECURSIVE AddNoIdPapers(_, _)
AddNoIdPapers(updated, existing) ==
    IF existing = << >> THEN updated
    ELSE LET paper == Head(existing)
             is_already_present ==
                 \E j \in DOMAIN updated :
                     /\ updated[j].title = paper.title
                     /\ ~Truthy(updated[j].entry_id)
         IN  IF ~Truthy(paper.entry_id) /\ ~is_already_present
             THEN AddNoIdPapers(Append(updated, paper), Tail(existing))
             ELSE AddNoIdPapers(updated, Tail(existing))

\* append_to_failed_log that writes the file whatever the merge added
append_to_failed_log_AlwaysWrites(L, new_failures, now) ==
    IF new_failures = << >> THEN L
    ELSE LET existing0 == ExistingFailuresPapers(L)
             st == MergeLoop([map |-> DictFromPapers(existing0),
                              existing |-> existing0, added |-> 0],
                             new_failures)
         IN  LedgerFile(AddNoIdPapers(st.map, st.existing), now)

\* the ledger file after append_to_failed_log(failed_log_path, new_failures)
\* called at time now (file writes are taken to succeed)
append_to_failed_log(L, new_failures, now) ==
    IF new_failures = << >> THEN L
    ELSE LET existing0 == ExistingFailuresPapers(L)
             st == MergeLoop([map |-> DictFromPapers(existing0),
                              existing |-> existing0, added |-> 0],
                             new_failures)
             updated_papers_list == AddNoIdPapers(st.map, st.existing)
         IN  IF st.added > 0 \/ ~L.exists
             THEN LedgerFile(updated_papers_list, now)
             ELSE L

\* the branch of __main__ taken when the run had no failure: an existing
\* ledger with no papers (or of size 0) is removed
RemoveEmptyLedger(L) ==
    IF ~L.exists THEN L
    ELSE IF L.content = "zero" THEN AbsentLedger
    ELSE IF L.content = "json" /\ L.papers = << >> THEN AbsentLedger
    ELSE L

(***************************************************************************)
(* Inputs of a run: identities, papers, batch files, the output tree.      *)
(***************************************************************************)
IdX == <<"x">>
\* an old-style identity with a path separator, and the identity it collides
\* with after sanitize_filename
IdY == <<"y", "/", "1">>

\* a record as search.py writes it, with its primary_category
PaperX ==
    [Paper(IdX, <<"arxiv.org", IdX>>, "tx") EXCEPT !.primary_category = <<"c">>]
\* a second record of the same identity
PaperX2 == Paper(IdX, None, "tx2")
\* its primary URL is the mirror URL
PaperY == Paper(IdY, ExportMirrorUrl(IdY), "ty")
\* a record without entry_id
PaperN == Paper(None, None, "tn")

\* a record without entry_id that has a pdf_url
PaperU == Paper(None, <<"arxiv.org", IdX>>, "tu")

\* a third identity, met only in the failure lists of earlier runs
IdZ == <<"z">>
PaperZ == Paper(IdZ, <<"arxiv.org", IdZ>>, "tz")

\* the identities of a list of papers
IdsOf(papers) ==
    {papers[j].entry_id : j \in {k \in DOMAIN papers : Truthy(papers[k].entry_id)}}

\* the failure records a run can end with: failure records built by the
\* as_completed loop, and the raw records a failed makedirs returns
FailurePool ==
    { FailureRecord(PaperX, "timeout", <<"q", "1">>),
      FailureRecord(PaperX2, "Execution exception", <<"q", "2">>),
      FailureRecord(PaperY, "wget failed", <<"q", "1">>),
      FailureRecord(PaperZ, "timeout", <<"c", "1">>),
      PaperN }

\* the lists current_run_failures of at most MaxFailures records
FailureLists ==
    UNION {[1..n -> FailurePool] : n \in 0..MaxFailures}

BatchFile(stem, kind, keyword, category, papers) ==
    [stem |-> stem, kind |-> kind, keyword |-> keyword,
     category |-> category, papers |-> papers]

FileQ == BatchFile(<<"q", "1">>, "ok", <<"q">>, None, <<PaperX, PaperY, PaperN>>)
FileDup == BatchFile(<<"q", "2">>, "ok", <<"q">>, None, <<PaperX, PaperX2>>)
FileC == BatchFile(<<"c", "1">>, "ok", None, <<"c">>, <<PaperX>>)
FileBad == BatchFile(<<"b", "1">>, "bad", None, None, << >>)
FileEmpty == BatchFile(<<"e", "1">>, "ok", <<"q">>, None, << >>)
FileUndecodable == BatchFile(<<"u", "1">>, "undecodable", None, None, << >>)
FileX == BatchFile(<<"q", "3">>, "ok", <<"q">>, None, <<PaperX>>)
FileXAgain == BatchFile(<<"q", "4">>, "ok", <<"q">>, None, <<PaperX>>)

\* the lists of JSON files a run is started on (--input-json: one file;
\* --input-dir: the files of the directory)
Runs == { <<FileQ>>, <<FileDup>>, <<FileBad, FileC>>, <<FileEmpty>> }

SubdirOf(f) == pdf_output_subdir_name(f.keyword, f.category, f.stem)

AllFiles == {FileQ, FileDup, FileC, FileBad, FileEmpty}

RetryDownloads ==
    <<"r","e","t","r","y","_","d","o","w","n","l","o","a","d","s">>

\* Python's "a or b" on str-or-None values
Or(a, b) == IF Truthy(a) THEN a ELSE b

\* a re-derivation that takes the facets embedded in the record first and
\* those of the original input JSON only when the record has none
target_subdir_name_RecordFirst(loaded, file_keyword, file_category, keyword_from_query, category_from_query, primary_category) ==
    LET keyword == Or(keyword_from_query, IF loaded THEN file_keyword ELSE None)
        category == Or(Or(category_from_query, primary_category),
                       IF loaded THEN file_category ELSE None)
        subdir_name_parts == SubdirNameParts(keyword, category)
        subdir_name == JoinUnderscore(SelectSeq(subdir_name_parts, Truthy))
    IN  IF subdir_name_parts /= << >> /\ Truthy(subdir_name)
        THEN subdir_name
        ELSE RetryDownloads

\* the subdirectory name determine_target_subdir of retry.py builds: keyword
\* and category are read from the query_details of the original input JSON
\* when that file could be loaded; a facet that is still empty is taken
\* from the record (keyword_from_query; category_from_query or
\* primary_category); with no facet at all the name is the default
target_subdir_name(loaded, file_keyword, file_category, keyword_from_query, category_from_query, primary_category) ==
    LET keyword == Or(IF loaded THEN file_keyword ELSE None, keyword_from_query)
        category == Or(IF loaded THEN file_category ELSE None,
                       Or(category_from_query, primary_category))
        subdir_name_parts == SubdirNameParts(keyword, category)
        subdir_name == JoinUnderscore(SelectSeq(subdir_name_parts, Truthy))
    IN  IF subdir_name_parts /= << >> /\ Truthy(subdir_name)
        THEN subdir_name
        ELSE RetryDownloads

\* determine_target_subdir of retry.py on a record of the model, which has
\* no keyword_from_query and no category_from_query (download.py writes
\* neither)
determine_target_subdir(paper_details) ==
    LET loaded == {f \in AllFiles :
                     /\ f.stem = paper_details.original_input_json
                     /\ f.kind = "ok"}
        original_data == CHOOSE f \in loaded : TRUE
    IN  target_subdir_name(loaded /= {},
                           IF loaded /= {} THEN original_data.keyword ELSE None,
                           IF loaded /= {} THEN original_data.category ELSE None,
                           None, None, paper_details.primary_category)

\* the ledgers a retry pass is started on: none, a file of size 0, a file
\* json.load cannot parse, a ledger without papers, and ledgers download.py
\* wrote (failure records, and the raw records of a batch whose
\* subdirectory could not be created)
RetryLedgerLists ==
    { << >>,
      << FailureRecord(PaperX, "timeout", <<"q", "1">>) >>,
      << FailureRecord(PaperX, "timeout", <<"q", "1">>),
         FailureRecord(PaperY, "wget failed", <<"q", "1">>) >>,
      << PaperN, FailureRecord(PaperY, "timeout", <<"g", "0">>) >>,
      << PaperX, PaperY >> }

RetryRecords == UNION {{L[j] : j \in DOMAIN L} : L \in RetryLedgerLists}

\* the subdirectories the batches and the retried records are stored in
AllDirs ==
    {SubdirOf(f) : f \in {g \in AllFiles : g.kind = "ok"}}
    \cup {determine_target_subdir(r) :
              r \in {q \in RetryRecords : Truthy(q.entry_id)}}

SafeIds == {sanitize_filename(IdX), sanitize_filename(IdY)}

\* os.path.join(sub_dir_path, f"{safe_entry_id}.pdf")
PdfPath(dir, safe_entry_id) == <<dir, safe_entry_id>>

Paths == {PdfPath(d, sid) : d \in AllDirs, sid \in SafeIds}

\* what is at a path: nothing, a file of size 0, a file some wget is still
\* writing (size > 0), a complete file
FileStates == {"none", "empty", "partial", "full"}

NonZeroSize(f) == f \in {"partial", "full"}

(***************************************************************************)
(* State.                                                                  *)
(***************************************************************************)
VARIABLES
    program,                \* the script that runs: "download" or "retry"
    fs,                     \* Paths -> FileStates: the PDF files of the tree
    dirs,                   \* the subdirectories of the output root that exist
    GLOBAL_EXISTING_PDFS,   \* the dedup index: safe id -> path
    global_deduplication,   \* --global-deduplication
    scanned_index,          \* the index as the pre-scan left it
    batch_tree,             \* the tree as the fan-out of the batch found it
    downloads,              \* <<batch, safe id>> of the DOWNLOADED outcomes so far
    download_source_pref,   \* --download-source
    max_workers,            \* --workers
    json_files,             \* the batch files of the run, in processing order
    file_idx,               \* the batch file being processed
    mainpc,                 \* position of the main thread
    papers_to_download,     \* data['papers'] of the current batch
    pdf_output_subdir,      \* output subdirectory of the current batch
    next_submit,            \* next record the fan-out comprehension looks at
    pc,                     \* per record of the batch: position of its future
    result,                 \* per record: what the future holds
    obs,                    \* per record: locals of download_single_pdf
    net,                    \* per record: probes made, transfers started
    linked,                 \* per record: its wget's file is still at the path
    subdir_metadata,        \* the four counters of the batch metadata
    metadata_written,       \* _metadata.json files written, per batch file
    batch_failed_paper_details,
    returned,               \* how download_pdfs_from_json returned, and what
    overall_failed_downloads,
    ledger,                 \* the failure ledger file
    still_failed_after_retry,
    successfully_retried_count,
    now,                    \* the clock the time stamps are read from
    fed,                    \* ledger runs: identities merged so far
    refed,                  \* ledger runs: identities merged when present
    call,                   \* a function called on its own: name and arguments
    retval                  \* what that call returned, << >> before it returns

vars == <<program, fs, dirs, GLOBAL_EXISTING_PDFS, global_deduplication, scanned_index,
          batch_tree, downloads, download_source_pref, max_workers,
          json_files, file_idx, mainpc, papers_to_download, pdf_output_subdir,
          next_submit, pc, result, obs, net, linked, subdir_metadata,
          metadata_written, batch_failed_paper_details, returned,
          overall_failed_downloads, ledger, still_failed_after_retry,
          successfully_retried_count, now, fed, refed, call, retval>>

callVars == <<call, retval>>
treeVars == <<fs, dirs, GLOBAL_EXISTING_PDFS>>
paramVars == <<program, download_source_pref, max_workers, json_files,
               global_deduplication>>
histVars == <<scanned_index, batch_tree, downloads>>
batchVars == <<papers_to_download, pdf_output_subdir, next_submit>>
taskVars == <<pc, result, obs, net, linked>>
outVars == <<subdir_metadata, metadata_written, batch_failed_paper_details,
             returned, overall_failed_downloads>>
ledgerVars == <<ledger, still_failed_after_retry, successfully_retried_count,
               now, fed, refed>>

\* no function is called on its own
NoCall == [fn |-> "none"]
NoResult == [status |-> "none", path |-> None, reason |-> ""]
NoObs == [global_path |-> None, exists |-> "unknown", size |-> "unknown",
          url |-> None]
NoNet == [probes |-> 0, transfers |-> 0]
ZeroMetadata == [downloaded_here_count |-> 0, existed_in_subdir_count |-> 0,
                 skipped_global_duplicate_count |-> 0, failed_download_count |-> 0]
NotReturned == [how |-> "running", list |-> << >>]

\* the records of the batch that the fan-out knows
Records == DOMAIN pc

current_file == json_files[file_idx]

paper_map == DictFromPapers(papers_to_download)

SafeIdOf(i) == sanitize_filename(papers_to_download[i].entry_id)

\* the sub_dir_path download_single_pdf is called with for record i:
\* pdf_output_subdir of the batch, target_subdir_for_retry in a retry pass
TargetDir(i) ==
    IF program = "retry"
    THEN determine_target_subdir(papers_to_download[i])
    ELSE pdf_output_subdir

\* output_path_current_subdir of record i
Target(i) == PdfPath(TargetDir(i), SafeIdOf(i))

RunningStates == {"index", "exists", "getsize", "resolve", "transfer"}

\* the futures a pool thread is executing
InFlight == {i \in Records : pc[i] \in RunningStates}

Queued == {i \in Records : pc[i] = "queued"}

Dispatched == {i \in Records : pc[i] \notin {"unsubmitted", "skipped"}}

\* the output trees a run may find: any state of the two files of IdX, and
\* the file of IdY present or not in the subdirectory of the keyword batches
InitialTrees ==
    {t \in [Paths -> {"none", "empty", "full"}] :
        /\ t[PdfPath(SubdirOf(FileC), sanitize_filename(IdY))] = "none"
        /\ t[PdfPath(SubdirOf(FileQ), sanitize_filename(IdY))] /= "empty"
        /\ \A q \in Paths :
              q[1] \notin {SubdirOf(FileC), SubdirOf(FileQ)} => t[q] = "none"}

\* the output trees a retry pass may find: the file of IdX present or not
\* where its batch stores it, and in any state where the retry stores it
RetryTrees ==
    {t \in [Paths -> {"none", "empty", "full"}] :
        /\ t[PdfPath(SubdirOf(FileQ), sanitize_filename(IdX))] /= "empty"
        /\ \A q \in Paths :
              (/\ q /= PdfPath(SubdirOf(FileQ), sanitize_filename(IdX))
               /\ q /= PdfPath(determine_target_subdir(
                                  FailureRecord(PaperX, "timeout", <<"q", "1">>)),
                              sanitize_filename(IdX))) => t[q] = "none"}

\* the ledger files a retry pass may find
RetryLedgers ==
    { AbsentLedger,
      [exists |-> TRUE, content |-> "zero", papers |-> << >>, stamp |-> 0],
      [exists |-> TRUE, content |-> "bad", papers |-> << >>, stamp |-> 0] }
    \cup {LedgerFile(papers, 0) : papers \in RetryLedgerLists}

Init ==
    /\ program \in {"download", "retry"}
    /\ fs \in (IF program = "retry" THEN RetryTrees ELSE InitialTrees)
    /\ dirs = {d \in AllDirs : \E sid \in SafeIds : fs[PdfPath(d, sid)] /= "none"}
    /\ GLOBAL_EXISTING_PDFS = << >>
    /\ global_deduplication \in BOOLEAN
    /\ scanned_index = << >>
    /\ batch_tree = fs
    /\ downloads = {}
    /\ download_source_pref \in Policies
    /\ max_workers \in 1..MaxWorkers
    /\ json_files \in (IF program = "retry" THEN {<< >>} ELSE Runs)
    /\ file_idx = 1
    /\ mainpc = "start"
    /\ papers_to_download = << >>
    /\ pdf_output_subdir = None
    /\ next_submit = 1
    /\ pc = << >>
    /\ result = << >>
    /\ obs = << >>
    /\ net = << >>
    /\ linked = << >>
    /\ subdir_metadata = ZeroMetadata
    /\ metadata_written = [k \in DOMAIN json_files |-> 0]
    /\ batch_failed_paper_details = << >>
    /\ returned = NotReturned
    /\ overall_failed_downloads = << >>
    /\ ledger \in (IF program = "retry" THEN RetryLedgers ELSE {AbsentLedger})
    /\ still_failed_after_retry = << >>
    /\ successfully_retried_count = 0
    /\ now = 1
    /\ fed = {}
    /\ refed = {}
    /\ call = NoCall
    /\ retval = << >>

(***************************************************************************)
(* scan_global_output_directory.  rglob visits the subdirectories in the   *)
(* order the file system lists them; a later file of the same stem         *)
(* overwrites the entry of an earlier one.                                 *)
(***************************************************************************)
DirOrders ==
    {o \in [1..Cardinality(AllDirs) -> AllDirs] :
        \A a, b \in DOMAIN o : o[a] = o[b] => a = b}

ScannedIndex(tree, order) ==
    LET found == {sid \in SafeIds :
                    \E d \in AllDirs : tree[PdfPath(d, sid)] /= "none"}
        lastDir(sid) ==
            order[CHOOSE k \in DOMAIN order :
                    /\ tree[PdfPath(order[k], sid)] /= "none"
                    /\ \A m \in DOMAIN order :
                          tree[PdfPath(order[m], sid)] /= "none" => m <= k]
    IN  [sid \in found |-> PdfPath(lastDir(sid), sid)]

\* --global-deduplication given
ScanGlobalOutputDirectory ==
    /\ program = "download"
    /\ mainpc = "start"
    /\ global_deduplication
    /\ \E order \in DirOrders : GLOBAL_EXISTING_PDFS' = ScannedIndex(fs, order)
    /\ scanned_index' = GLOBAL_EXISTING_PDFS'
    /\ mainpc' = "load"
    /\ UNCHANGED <<fs, dirs, paramVars, file_idx, batchVars, taskVars, outVars,
                   ledgerVars, batch_tree, downloads>>
    /\ UNCHANGED callVars

\* --global-deduplication not given
SkipGlobalScan ==
    /\ program = "download"
    /\ mainpc = "start"
    /\ ~global_deduplication
    /\ mainpc' = "load"
    /\ UNCHANGED <<treeVars, paramVars, file_idx, batchVars, taskVars, outVars,
                   ledgerVars, histVars>>
    /\ UNCHANGED callVars

(***************************************************************************)
(* download_pdfs_from_json: the main thread.                               *)
(***************************************************************************)
Return(how, list) ==
    /\ returned' = [how |-> how, list |-> list]
    /\ mainpc' = "returned"

\* open + json.load, data.get('papers'), the subdirectory name.  Only
\* FileNotFoundError and JSONDecodeError are caught (kind "bad"); a file
\* that is not UTF-8 text (UnicodeDecodeError), that cannot be opened
\* (PermissionError) or whose JSON value is not an object (AttributeError of
\* data.get) raises out of download_pdfs_from_json and of its callers
\* (kind "undecodable")
LoadJson ==
    /\ mainpc = "load"
    /\ LET f == current_file
       IN  IF f.kind = "undecodable"
           THEN /\ mainpc' = "raised"
                /\ UNCHANGED <<batchVars, returned>>
           ELSE IF f.kind /= "ok"
           THEN /\ Return("unreadable", << >>)
                /\ UNCHANGED batchVars
           ELSE IF f.papers = << >>
           THEN /\ Return("nopapers", << >>)
                /\ UNCHANGED batchVars
           ELSE /\ papers_to_download' = f.papers
                /\ pdf_output_subdir' = SubdirOf(f)
                /\ next_submit' = 1
                /\ mainpc' = "makedirs"
                /\ UNCHANGED returned
    /\ UNCHANGED <<treeVars, paramVars, file_idx, taskVars, subdir_metadata,
                   metadata_written, batch_failed_paper_details,
                   overall_failed_downloads, ledgerVars, histVars>>
    /\ UNCHANGED callVars

ResetTasks(papers) ==
    LET all == DOMAIN papers
    IN  /\ pc' = [i \in all |-> "unsubmitted"]
        /\ result' = [i \in all |-> NoResult]
        /\ obs' = [i \in all |-> NoObs]
        /\ net' = [i \in all |-> NoNet]
        /\ linked' = [i \in all |-> FALSE]

\* os.makedirs(pdf_output_subdir, exist_ok=True) succeeds
MakeDirsOk ==
    /\ mainpc = "makedirs"
    /\ dirs' = dirs \cup {pdf_output_subdir}
    /\ subdir_metadata' = ZeroMetadata
    /\ batch_failed_paper_details' = << >>
    /\ ResetTasks(papers_to_download)
    /\ batch_tree' = fs
    /\ mainpc' = "submit"
    /\ UNCHANGED <<fs, GLOBAL_EXISTING_PDFS, paramVars, file_idx, batchVars,
                   metadata_written, returned, overall_failed_downloads,
                   ledgerVars, scanned_index, downloads>>
    /\ UNCHANGED callVars

\* os.makedirs raises OSError: the batch is given up and the raw list of
\* papers is returned
MakeDirsFails ==
    /\ mainpc = "makedirs"
    /\ pdf_output_subdir \notin dirs
    /\ Return("makedirs", papers_to_download)
    /\ UNCHANGED <<treeVars, paramVars, file_idx, batchVars, taskVars,
                   subdir_metadata, metadata_written,
                   batch_failed_paper_details, overall_failed_downloads,
                   ledgerVars, histVars>>
    /\ UNCHANGED callVars

\* one turn of the comprehension that submits the futures: a paper without
\* entry_id is filtered out, any other is handed to the executor
Submit ==
    /\ mainpc = "submit"
    /\ LET k == next_submit
       IN  /\ pc' = [pc EXCEPT ![k] =
                        IF Truthy(papers_to_download[k].entry_id)
                        THEN "queued" ELSE "skipped"]
           /\ next_submit' = k + 1
           /\ mainpc' = IF k = Len(papers_to_download) THEN "drain" ELSE "submit"
    /\ UNCHANGED <<treeVars, paramVars, file_idx, papers_to_download,
                   pdf_output_subdir, result, obs, net, linked, outVars,
                   ledgerVars, histVars>>
    /\ UNCHANGED callVars

Bump(field) == [subdir_metadata EXCEPT ![field] = @ + 1]

\* the failure record appended for the future of record i
FailureRecordOf(i, detail_msg) ==
    FailureRecord(DictGet(paper_map, papers_to_download[i].entry_id),
                  detail_msg, current_file.stem)

\* CounterOf whose except branch counts nothing
CounterOf_ExceptUncounted(status) ==
    CASE status = "DOWNLOADED" -> "downloaded_here_count"
      [] status = "EXISTED_SUBDIR" -> "existed_in_subdir_count"
      [] status = "EXISTED_GLOBAL" -> "skipped_global_duplicate_count"
      [] status = "FAILED" -> "failed_download_count"
      [] OTHER -> ""

\* the counter of subdir_metadata a status is counted in ("" for none)
CounterOf(status) ==
    CASE status = "DOWNLOADED" -> "downloaded_here_count"
      [] status = "EXISTED_SUBDIR" -> "existed_in_subdir_count"
      [] status = "EXISTED_GLOBAL" -> "skipped_global_duplicate_count"
      [] status = "FAILED" -> "failed_download_count"
      [] status = "EXCEPTION" -> "failed_download_count"
      [] OTHER -> ""

\* AfterCollect that keeps the failure record of the latest future only
AfterCollect_LatestOnly(list, i) ==
    LET r == result[i]
    IN  IF r.status \in {"FAILED", "EXCEPTION"}
        THEN <<FailureRecordOf(i, r.reason)>>
        ELSE list

\* AfterCollect whose except branch only logs
AfterCollect_ExceptLogsOnly(list, i) ==
    LET r == result[i]
    IN  IF r.status = "FAILED"
        THEN Append(list, FailureRecordOf(i, r.reason))
        ELSE list

\* batch_failed_paper_details after the future of record i was looked at:
\* the FAILED branch and the except branch append a failure record
AfterCollect(list, i) ==
    LET r == result[i]
    IN  CASE r.status = "FAILED" ->
               Append(list, FailureRecordOf(
                   i, IF r.reason /= "" THEN r.reason
                      ELSE "Unknown error during download_single_pdf"))
          [] r.status = "EXCEPTION" ->
               Append(list, FailureRecordOf(i, "Execution exception"))
          [] OTHER -> list

\* CollectNextPc without the except branch: the exception of a future
\* leaves download_pdfs_from_json
CollectNextPc_Propagates(status) ==
    IF status = "EXCEPTION" THEN "raised" ELSE "drain"

\* where the main thread is after a future was looked at: the try/except
\* around future.result() keeps an exception of the future inside the loop
CollectNextPc(status) == "drain"

\* one turn of "for future in as_completed(...)"
Collect(i) ==
    /\ mainpc = "drain"
    /\ pc[i] = "done"
    /\ pc' = [pc EXCEPT ![i] = "collected"]
    /\ subdir_metadata' =
           IF CounterOf(result[i].status) = "" THEN subdir_metadata
           ELSE Bump(CounterOf(result[i].status))
    /\ batch_failed_paper_details' = AfterCollect(batch_failed_paper_details, i)
    /\ mainpc' = CollectNextPc(result[i].status)
    /\ UNCHANGED <<treeVars, paramVars, file_idx, batchVars, result,
                   obs, net, linked, metadata_written, returned,
                   overall_failed_downloads, ledgerVars, histVars>>
    /\ UNCHANGED callVars

\* an executor that is left at once, with futures still running
ExecutorDrained_NoWait == TRUE

\* the as_completed loop is over and the "with" block of the executor is
\* left: every submitted future was collected
ExecutorDrained == \A i \in Records : pc[i] \in {"skipped", "collected"}

\* the executor is left when every future was collected; _metadata.json is
\* written and the failure records are returned
WriteMetadataAndReturn ==
    /\ mainpc = "drain"
    /\ ExecutorDrained
    /\ metadata_written' = [metadata_written EXCEPT ![file_idx] = @ + 1]
    /\ Return("fanout", batch_failed_paper_details)
    /\ UNCHANGED <<treeVars, paramVars, file_idx, batchVars, taskVars,
                   subdir_metadata, batch_failed_paper_details,
                   overall_failed_downloads, ledgerVars, histVars>>
    /\ UNCHANGED callVars

\* process_directory: the returned list is added to the run's failures and
\* the next JSON file is taken
NextJsonFile ==
    /\ mainpc = "returned"
    /\ overall_failed_downloads' = overall_failed_downloads \o returned.list
    /\ IF file_idx < Len(json_files)
       THEN /\ file_idx' = file_idx + 1
            /\ mainpc' = "load"
            /\ returned' = NotReturned
            /\ papers_to_download' = << >>
            /\ pdf_output_subdir' = None
            /\ next_submit' = 1
            /\ pc' = << >>
            /\ result' = << >>
            /\ obs' = << >>
            /\ net' = << >>
            /\ linked' = << >>
            /\ subdir_metadata' = ZeroMetadata
            /\ batch_failed_paper_details' = << >>
       ELSE /\ mainpc' = "merge"
            /\ UNCHANGED <<file_idx, returned, batchVars, taskVars,
                           subdir_metadata, batch_failed_paper_details>>
    /\ UNCHANGED <<treeVars, paramVars, metadata_written, ledgerVars, histVars>>
    /\ UNCHANGED callVars

\* the end of __main__: the run's failures are merged into the ledger, or an
\* empty ledger is removed
FinishRun ==
    /\ mainpc = "merge"
    /\ ledger' = IF overall_failed_downloads /= << >>
                 THEN append_to_failed_log(ledger, overall_failed_downloads, now)
                 ELSE RemoveEmptyLedger(ledger)
    /\ now' = now + 1
    /\ mainpc' = "done"
    /\ fed' = fed \cup IdsOf(overall_failed_downloads)
    /\ refed' = refed \cup (IdsOf(overall_failed_downloads)
                                \cap IdsOf(ExistingFailuresPapers(ledger)))
    /\ UNCHANGED <<treeVars, paramVars, file_idx, batchVars, taskVars, outVars,
                   histVars, still_failed_after_retry,
                   successfully_retried_count>>
    /\ UNCHANGED callVars

(***************************************************************************)
(* retry_failed_downloads of retry.py: the main thread of a retry pass.    *)
(* papers_to_download holds its papers_to_retry.                           *)
(***************************************************************************)
\* the ledger does not exist or has size 0: nothing to retry
RetryNothingToDo ==
    /\ program = "retry"
    /\ mainpc = "start"
    /\ ~ledger.exists \/ ledger.content = "zero"
    /\ mainpc' = "done"
    /\ UNCHANGED <<treeVars, paramVars, file_idx, batchVars, taskVars, outVars,
                   ledgerVars, histVars>>
    /\ UNCHANGED callVars

\* scan_global_output_directory(base_output_dir), or GLOBAL_EXISTING_PDFS.clear()
RetryScanOrClear ==
    /\ program = "retry"
    /\ mainpc = "start"
    /\ ledger.exists /\ ledger.content /= "zero"
    /\ IF global_deduplication
       THEN \E order \in DirOrders :
               GLOBAL_EXISTING_PDFS' = ScannedIndex(fs, order)
       ELSE GLOBAL_EXISTING_PDFS' = << >>
    /\ scanned_index' = GLOBAL_EXISTING_PDFS'
    /\ mainpc' = "retry_load"
    /\ UNCHANGED <<fs, dirs, paramVars, file_idx, batchVars, taskVars, outVars,
                   ledgerVars, batch_tree, downloads>>
    /\ UNCHANGED callVars

\* a retry pass that goes on whatever it read
NothingToRetry_Never(L) == FALSE

\* the ledger cannot be read or parsed, or its list of papers is empty
NothingToRetry(L) == L.content /= "json" \/ L.papers = << >>

\* json.load of the ledger and data.get('papers', [])
RetryLoad ==
    /\ mainpc = "retry_load"
    /\ IF NothingToRetry(ledger)
       THEN /\ mainpc' = "done"
            /\ UNCHANGED <<batchVars, taskVars, batch_tree>>
       ELSE /\ papers_to_download' = ledger.papers
            /\ next_submit' = 1
            /\ ResetTasks(ledger.papers)
            /\ batch_tree' = fs
            /\ mainpc' = "retry_submit"
            /\ UNCHANGED pdf_output_subdir
    /\ UNCHANGED <<treeVars, paramVars, file_idx, outVars, ledgerVars,
                   scanned_index, downloads>>
    /\ UNCHANGED callVars

\* one turn of "for paper in papers_to_retry": a paper without entry_id and
\* a paper whose subdirectory cannot be created stay in the ledger, any
\* other is handed to the executor
RetrySubmit ==
    /\ mainpc = "retry_submit"
    /\ LET k == next_submit
           paper == papers_to_download[k]
           target_subdir_for_retry == determine_target_subdir(paper)
       IN  /\ \E makedirs_ok \in BOOLEAN :
                 IF ~Truthy(paper.entry_id)
                 THEN /\ still_failed_after_retry' =
                            Append(still_failed_after_retry, paper)
                      /\ pc' = [pc EXCEPT ![k] = "skipped"]
                      /\ UNCHANGED dirs
                 ELSE IF makedirs_ok \/ target_subdir_for_retry \in dirs
                 THEN /\ dirs' = dirs \cup {target_subdir_for_retry}
                      /\ pc' = [pc EXCEPT ![k] = "queued"]
                      /\ UNCHANGED still_failed_after_retry
                 ELSE /\ still_failed_after_retry' =
                            Append(still_failed_after_retry, paper)
                      /\ pc' = [pc EXCEPT ![k] = "skipped"]
                      /\ UNCHANGED dirs
           /\ next_submit' = k + 1
           /\ mainpc' = IF k = Len(papers_to_download)
                        THEN "retry_drain" ELSE "retry_submit"
    /\ UNCHANGED <<fs, GLOBAL_EXISTING_PDFS, paramVars, file_idx,
                   papers_to_download, pdf_output_subdir, result, obs, net,
                   linked, outVars, ledger, successfully_retried_count, now,
                   fed, refed, histVars>>
    /\ UNCHANGED callVars

paper_map_for_retry == DictFromPapers(papers_to_download)

\* a retry pass that keeps a failed record as it read it
StillFailedRecord_Unmarked(i, detail) ==
    DictGet(paper_map_for_retry, papers_to_download[i].entry_id)

\* original_failed_paper_details with the two retry fields set
StillFailedRecord(i, detail) ==
    [DictGet(paper_map_for_retry, papers_to_download[i].entry_id)
        EXCEPT !.retry_attempt_failed_reason = detail,
               !.last_retry_timestamp = now]

\* a retry pass that takes every outcome for a success
RetrySucceeded_AnyOutcome(status) == TRUE

\* the test of the as_completed loop of the retry pass on the status the
\* future returned
RetrySucceeded(status) ==
    status \in {"DOWNLOADED", "EXISTED_SUBDIR", "EXISTED_GLOBAL"}

\* one turn of "for future in as_completed(...)" of the retry pass
RetryCollect(i) ==
    /\ mainpc = "retry_drain"
    /\ pc[i] = "done"
    /\ pc' = [pc EXCEPT ![i] = "collected"]
    /\ LET r == result[i]
       IN  IF RetrySucceeded(r.status)
           THEN /\ successfully_retried_count' = successfully_retried_count + 1
                /\ UNCHANGED still_failed_after_retry
           ELSE /\ still_failed_after_retry' =
                      Append(still_failed_after_retry,
                             StillFailedRecord(
                                 i, IF r.status = "EXCEPTION"
                                    THEN "Execution exception" ELSE r.reason))
                /\ UNCHANGED successfully_retried_count
    /\ UNCHANGED <<treeVars, paramVars, file_idx, batchVars, result, obs, net,
                   linked, outVars, ledger, now, fed, refed,
                   histVars, mainpc>>
    /\ UNCHANGED callVars

\* a retry pass that writes the ledger whatever is left
LedgerAfterRetry_AlwaysWritten(L, still_failed, stamp, remove_ok) ==
    LedgerFile(still_failed, stamp)

\* the ledger file after the last statement of retry_failed_downloads: it
\* is rewritten with the papers that are still failed, or removed when none
\* is left (file writes are taken to succeed; os.remove may fail)
LedgerAfterRetry(L, still_failed, stamp, remove_ok) ==
    IF still_failed /= << >>
    THEN LedgerFile(still_failed, stamp)
    ELSE IF L.exists /\ remove_ok THEN AbsentLedger ELSE L

\* after the executor: the ledger is rewritten or removed
RetryUpdateLedger ==
    /\ mainpc = "retry_drain"
    /\ \A i \in Records : pc[i] \in {"skipped", "collected"}
    /\ \E remove_ok \in BOOLEAN :
          ledger' = LedgerAfterRetry(ledger, still_failed_after_retry, now,
                                     remove_ok)
    /\ now' = now + 1
    /\ mainpc' = "done"
    /\ UNCHANGED <<treeVars, paramVars, file_idx, batchVars, taskVars, outVars,
                   still_failed_after_retry, successfully_retried_count,
                   fed, refed, histVars>>
    /\ UNCHANGED callVars

(***************************************************************************)
(* download_single_pdf: one future, run by a thread of the pool.  The      *)
(* function is the same in download.py and in retry.py.                    *)
(***************************************************************************)
Done(i, status, path, reason) ==
    /\ pc' = [pc EXCEPT ![i] = "done"]
    /\ result' = [result EXCEPT ![i] =
                     [status |-> status, path |-> path, reason |-> reason]]

\* an index that is started afresh by every entry stored
IndexPut_Afresh(index, safe_entry_id, path) ==
    [sid \in {safe_entry_id} |-> path]

\* a fetch that does not record what it stored
IndexPut_NotRecorded(index, safe_entry_id, path) == index

\* GLOBAL_EXISTING_PDFS[safe_entry_id] = path
IndexPut(index, safe_entry_id, path) ==
    [sid \in DOMAIN index \cup {safe_entry_id} |->
        IF sid = safe_entry_id THEN path ELSE index[sid]]

\* a pool that starts a thread for every submitted future
PoolHasFreeThread_Unbounded == TRUE

\* a thread of the pool may take a queued future
PoolHasFreeThread == Cardinality(InFlight) < max_workers

\* a fetch that does not test the entry_id
MissingEntryId_Never(paper_details) == FALSE

\* "if not entry_id" at the top of download_single_pdf: the key is missing,
\* None or the empty string
MissingEntryId(paper_details) == ~Truthy(paper_details.entry_id)

\* a pool thread takes the oldest queued future and enters
\* download_single_pdf: the entry_id test
StartWorker(i) ==
    /\ pc[i] = "queued"
    /\ \A j \in Queued : i <= j
    /\ PoolHasFreeThread
    /\ IF MissingEntryId(papers_to_download[i])
       THEN Done(i, "FAILED", None, "missing entry_id")
       ELSE /\ pc' = [pc EXCEPT ![i] = "index"]
            /\ UNCHANGED result
    /\ UNCHANGED <<treeVars, paramVars, file_idx, mainpc, batchVars, obs, net,
                   linked, outVars, ledgerVars, histVars>>
    /\ UNCHANGED callVars

\* IndexVerdict with the comparison of the two paths inverted
IndexVerdict_Inverted(index, safe_entry_id, target) ==
    IF safe_entry_id \in DOMAIN index
    THEN (IF index[safe_entry_id] /= target
          THEN "EXISTED_SUBDIR" ELSE "EXISTED_GLOBAL")
    ELSE ""

\* IndexVerdict that only knows the entries of the current subdirectory
IndexVerdict_SubdirOnly(index, safe_entry_id, target) ==
    IF safe_entry_id \in DOMAIN index /\ index[safe_entry_id] = target
    THEN "EXISTED_SUBDIR"
    ELSE ""

\* the status the index lookup decides, "" when it decides nothing
IndexVerdict(index, safe_entry_id, target) ==
    IF safe_entry_id \in DOMAIN index
    THEN (IF index[safe_entry_id] = target
          THEN "EXISTED_SUBDIR" ELSE "EXISTED_GLOBAL")
    ELSE ""

\* the lookup in GLOBAL_EXISTING_PDFS
CheckIndex(i) ==
    /\ pc[i] = "index"
    /\ LET sid == SafeIdOf(i)
           verdict == IndexVerdict(GLOBAL_EXISTING_PDFS, sid, Target(i))
       IN  IF verdict = "EXISTED_SUBDIR"
           THEN /\ obs' = [obs EXCEPT ![i].global_path = GLOBAL_EXISTING_PDFS[sid]]
                /\ Done(i, "EXISTED_SUBDIR", Target(i), "")
           ELSE IF verdict = "EXISTED_GLOBAL"
           THEN /\ obs' = [obs EXCEPT ![i].global_path = GLOBAL_EXISTING_PDFS[sid]]
                /\ Done(i, "EXISTED_GLOBAL", GLOBAL_EXISTING_PDFS[sid], "")
           ELSE /\ pc' = [pc EXCEPT ![i] = "exists"]
                /\ UNCHANGED <<result, obs>>
    /\ UNCHANGED <<treeVars, paramVars, file_idx, mainpc, batchVars, net,
                   linked, outVars, ledgerVars, histVars>>
    /\ UNCHANGED callVars

\* os.path.exists(output_path_current_subdir)
CheckExists(i) ==
    /\ pc[i] = "exists"
    /\ LET there == fs[Target(i)] /= "none"
       IN  /\ obs' = [obs EXCEPT ![i].exists = IF there THEN "yes" ELSE "no"]
           /\ pc' = [pc EXCEPT ![i] = IF there THEN "getsize" ELSE "resolve"]
    /\ UNCHANGED <<treeVars, paramVars, file_idx, mainpc, batchVars, result,
                   net, linked, outVars, ledgerVars, histVars>>
    /\ UNCHANGED callVars

\* the size test with the comparison turned round (getsize(path) == 0)
SizeAccepted_Zero(f) == f = "empty"

\* a size test no file passes: every fetch the index does not know
\* goes on to its transfer
SizeAccepted_Never(f) == FALSE

\* the size test getsize(path) > 0
SizeAccepted(f) == NonZeroSize(f)

\* os.path.getsize(output_path_current_subdir) > 0; getsize raises when the
\* file is gone again, and nothing in download_single_pdf catches that
CheckSize(i) ==
    /\ pc[i] = "getsize"
    /\ LET f == fs[Target(i)]
       IN  IF f = "none"
           THEN /\ obs' = [obs EXCEPT ![i].size = "gone"]
                /\ Done(i, "EXCEPTION", None, "FileNotFoundError")
                /\ UNCHANGED GLOBAL_EXISTING_PDFS
           ELSE IF SizeAccepted(f)
           THEN /\ obs' = [obs EXCEPT ![i].size = "positive"]
                /\ GLOBAL_EXISTING_PDFS' =
                       IndexPut(GLOBAL_EXISTING_PDFS, SafeIdOf(i), Target(i))
                /\ Done(i, "EXISTED_SUBDIR", Target(i), "")
           ELSE /\ obs' = [obs EXCEPT ![i].size = "zero"]
                /\ pc' = [pc EXCEPT ![i] = "resolve"]
                /\ UNCHANGED <<result, GLOBAL_EXISTING_PDFS>>
    /\ UNCHANGED <<fs, dirs, paramVars, file_idx, mainpc, batchVars, net,
                   linked, outVars, ledgerVars, histVars>>
    /\ UNCHANGED callVars

\* the source is resolved (with its probes under "fastest") and
\* subprocess.run starts wget, which opens the target for appending (-c -O)
StartTransfer(i) ==
    /\ pc[i] = "resolve"
    /\ \E s_primary \in Speeds, s_mirror \in Speeds, wget_found \in BOOLEAN :
         LET r == ResolveUrl(papers_to_download[i], download_source_pref,
                             s_primary, s_mirror)
             download_url_to_use == r[1]
         IN  /\ obs' = [obs EXCEPT ![i].url = download_url_to_use]
             /\ IF ~Truthy(download_url_to_use)
                THEN /\ net' = [net EXCEPT ![i].probes = r[2]]
                     /\ Done(i, "FAILED", None, "no download url")
                     /\ UNCHANGED <<fs, linked>>
                ELSE IF ~wget_found
                THEN /\ net' = [net EXCEPT ![i].probes = r[2]]
                     /\ Done(i, "FAILED", None, "wget command not found")
                     /\ UNCHANGED <<fs, linked>>
                ELSE /\ net' = [net EXCEPT ![i].probes = r[2],
                                           ![i].transfers = @ + 1]
                     /\ fs' = [fs EXCEPT ![Target(i)] =
                                  IF @ = "none" THEN "empty" ELSE @]
                     /\ linked' = [linked EXCEPT ![i] = TRUE]
                     /\ pc' = [pc EXCEPT ![i] = "transfer"]
                     /\ UNCHANGED result
    /\ UNCHANGED <<dirs, GLOBAL_EXISTING_PDFS, paramVars, file_idx, mainpc,
                   batchVars, outVars, ledgerVars, histVars>>
    /\ UNCHANGED callVars

\* wget has written some bytes
TransferProgress(i) ==
    /\ pc[i] = "transfer"
    /\ linked[i]
    /\ fs[Target(i)] = "empty"
    /\ fs' = [fs EXCEPT ![Target(i)] = "partial"]
    /\ UNCHANGED <<dirs, GLOBAL_EXISTING_PDFS, paramVars, file_idx, mainpc,
                   batchVars, taskVars, outVars, ledgerVars, histVars>>
    /\ UNCHANGED callVars

\* wget exits with status 0 within the timeout
TransferSucceeds(i) ==
    /\ pc[i] = "transfer"
    /\ fs' = [fs EXCEPT ![Target(i)] = IF linked[i] THEN "full" ELSE @]
    /\ GLOBAL_EXISTING_PDFS' =
           IndexPut(GLOBAL_EXISTING_PDFS, SafeIdOf(i), Target(i))
    /\ Done(i, "DOWNLOADED", Target(i), "")
    /\ downloads' = downloads \cup {<<file_idx, SafeIdOf(i)>>}
    /\ UNCHANGED <<dirs, paramVars, file_idx, mainpc, batchVars, obs, net,
                   linked, outVars, ledgerVars, scanned_index, batch_tree>>
    /\ UNCHANGED callVars

TransferFailures == {"timeout", "wget failed", "unknown error"}

\* the file at the path after the clean-up of a failed transfer;
\* remove_ok is whether os.remove succeeds
AfterCleanup(f, remove_ok) == IF f /= "none" /\ remove_ok THEN "none" ELSE f

\* TimeoutExpired, CalledProcessError or another exception: the file at the
\* target path is removed if it exists (an OSError of os.remove is ignored)
TransferFails(i) ==
    /\ pc[i] = "transfer"
    /\ \E why \in TransferFailures, remove_ok \in BOOLEAN :
         LET after == AfterCleanup(fs[Target(i)], remove_ok)
         IN  /\ fs' = [fs EXCEPT ![Target(i)] = after]
             /\ linked' = [j \in Records |->
                              IF after = "none" /\ fs[Target(i)] /= "none"
                                 /\ Target(j) = Target(i)
                              THEN FALSE ELSE linked[j]]
             /\ Done(i, "FAILED", None, why)
    /\ UNCHANGED <<dirs, GLOBAL_EXISTING_PDFS, paramVars, file_idx, mainpc,
                   batchVars, obs, net, outVars, ledgerVars, histVars>>
    /\ UNCHANGED callVars

Next ==
    \/ ScanGlobalOutputDirectory
    \/ SkipGlobalScan
    \/ LoadJson
    \/ MakeDirsOk
    \/ MakeDirsFails
    \/ Submit
    \/ \E i \in Records : StartWorker(i)
    \/ \E i \in Records : CheckIndex(i)
    \/ \E i \in Records : CheckExists(i)
    \/ \E i \in Records : CheckSize(i)
    \/ \E i \in Records : StartTransfer(i)
    \/ \E i \in Records : TransferProgress(i)
    \/ \E i \in Records : TransferSucceeds(i)
    \/ \E i \in Records : TransferFails(i)
    \/ \E i \in Records : Collect(i)
    \/ WriteMetadataAndReturn
    \/ NextJsonFile
    \/ FinishRun
    \/ RetryNothingToDo
    \/ RetryScanOrClear
    \/ RetryLoad
    \/ RetrySubmit
    \/ \E i \in Records : RetryCollect(i)
    \/ RetryUpdateLedger

Spec == Init /\ [][Next]_vars

(***************************************************************************)
(* Properties of the fetch worker and of the batch orchestrator.           *)
(***************************************************************************)
Finished(i) == pc[i] \in {"done", "collected"}

Statuses == {"DOWNLOADED", "EXISTED_SUBDIR", "EXISTED_GLOBAL", "FAILED"}

\* the records of the batch that have an entry_id
WithIdentity == {i \in Records : Truthy(papers_to_download[i].entry_id)}

\* C1: a fetch decides by the first check that matches, in the order
\* (a) index hit at another path -> EXISTED_GLOBAL, (b) index hit at the
\* target path -> EXISTED_SUBDIR, (c) non-empty file at the target path ->
\* EXISTED_SUBDIR and the index gains safe id -> target; the source is
\* resolved and a transfer started only when none of the three matched.
C1_DecisionOf(i) ==
    LET sid == SafeIdOf(i)
        tgt == Target(i)
        G == GLOBAL_EXISTING_PDFS
    IN  /\ (pc[i] = "index" /\ pc'[i] /= "index") =>
              IF sid \in DOMAIN G /\ G[sid] /= tgt
              THEN /\ pc'[i] = "done"
                   /\ result'[i].status = "EXISTED_GLOBAL"
                   /\ net'[i] = NoNet
              ELSE IF sid \in DOMAIN G
              THEN /\ pc'[i] = "done"
                   /\ result'[i].status = "EXISTED_SUBDIR"
                   /\ net'[i] = NoNet
              ELSE pc'[i] = "exists"
        /\ (pc[i] \in {"exists", "getsize"} /\ pc'[i] /= pc[i]
              /\ NonZeroSize(fs[tgt])) =>
              \/ pc'[i] = "getsize"
              \/ /\ pc'[i] = "done"
                 /\ result'[i].status = "EXISTED_SUBDIR"
                 /\ sid \in DOMAIN GLOBAL_EXISTING_PDFS'
                 /\ GLOBAL_EXISTING_PDFS'[sid] = tgt
                 /\ net'[i] = NoNet
        /\ (pc'[i] = "resolve" /\ pc[i] /= "resolve") =>
              /\ sid \notin DOMAIN scanned_index
              /\ \/ pc[i] = "exists" /\ fs[tgt] = "none"
                 \/ pc[i] = "getsize" /\ fs[tgt] = "empty"
        /\ (net'[i] /= net[i]) => pc[i] = "resolve"

C1_FetchDecisionOrder ==
    [][\A i \in WithIdentity \cap DOMAIN pc' : C1_DecisionOf(i)]_vars

\* a fetch took check (c): index miss, then a non-empty file at the target
C1_Witness ==
    \E i \in WithIdentity :
        /\ Finished(i)
        /\ obs[i].size = "positive"
        /\ result[i].status = "EXISTED_SUBDIR"
        /\ GLOBAL_EXISTING_PDFS[SafeIdOf(i)] = Target(i)

\* C2 (as stated): a record whose file is already at the exact destination
\* path gets EXISTED_SUBDIR without any probe or transfer, under every
\* policy and every state of the index.
C2_AsStated ==
    \A i \in WithIdentity :
        (Finished(i) /\ NonZeroSize(batch_tree[Target(i)])) =>
            /\ result[i].status = "EXISTED_SUBDIR"
            /\ net[i] = NoNet

\* C2 (amended): a record whose non-empty file is at the exact destination
\* path when the batch starts makes no probe and no transfer, and gets
\* EXISTED_SUBDIR unless the index holds its safe identity at another path,
\* in which case it gets EXISTED_GLOBAL.
C2_ExistingTargetNoNetwork ==
    \A i \in WithIdentity :
        NonZeroSize(batch_tree[Target(i)]) =>
            /\ net[i] = NoNet
            /\ Finished(i) =>
                  \/ result[i].status = "EXISTED_SUBDIR"
                  \/ /\ result[i].status = "EXISTED_GLOBAL"
                     /\ SafeIdOf(i) \in DOMAIN GLOBAL_EXISTING_PDFS
                     /\ GLOBAL_EXISTING_PDFS[SafeIdOf(i)] /= Target(i)
                     /\ result[i].path = GLOBAL_EXISTING_PDFS[SafeIdOf(i)]

\* a finished fetch whose file was at the target and that no scan indexed
C2_Witness ==
    \E i \in WithIdentity :
        /\ Finished(i)
        /\ ~global_deduplication
        /\ NonZeroSize(batch_tree[Target(i)])
        /\ result[i].status = "EXISTED_SUBDIR"
        /\ download_source_pref = "fastest"

\* the directories other than d in which the tree has a file of sid
ElsewhereInTree(tree, d, sid) ==
    {e \in AllDirs \ {d} : tree[PdfPath(e, sid)] /= "none"}

\* C3 (as stated): a record whose identity the pre-scan found at a path
\* other than the target gets EXISTED_GLOBAL, no transfer starts, and no file
\* is created at the target.
C3_AsStated ==
    \A i \in WithIdentity :
        (/\ global_deduplication
         /\ file_idx = 1
         /\ ElsewhereInTree(batch_tree, TargetDir(i), SafeIdOf(i)) /= {}) =>
            /\ net[i].transfers = 0
            /\ fs[Target(i)] = batch_tree[Target(i)]
            /\ Finished(i) => result[i].status = "EXISTED_GLOBAL"

\* C3 (amended): a record whose safe identity the pre-scan recorded in the
\* index at a path other than the target gets EXISTED_GLOBAL, starts no
\* transfer, and the file state at the target path is left as it was.
C3_ScannedElsewhereIsGlobal ==
    \A i \in WithIdentity :
        (/\ SafeIdOf(i) \in DOMAIN scanned_index
         /\ scanned_index[SafeIdOf(i)] /= Target(i)) =>
            /\ net[i].transfers = 0
            /\ fs[Target(i)] = batch_tree[Target(i)]
            /\ Finished(i) =>
                  /\ result[i].status = "EXISTED_GLOBAL"
                  /\ result[i].path = scanned_index[SafeIdOf(i)]

\* the scan found the identity elsewhere only, and the fetch has returned
C3_Witness ==
    \E i \in WithIdentity :
        /\ Finished(i)
        /\ SafeIdOf(i) \in DOMAIN scanned_index
        /\ scanned_index[SafeIdOf(i)] /= Target(i)
        /\ fs[Target(i)] = "none"
        /\ result[i].status = "EXISTED_GLOBAL"

\* C4: at no time are two workers transferring the same identity, so at most
\* one transfer is started per identity.
C4_OneTransferPerIdentity ==
    \A i, j \in Records :
        (i /= j
         /\ papers_to_download[i].entry_id = papers_to_download[j].entry_id) =>
            /\ ~(pc[i] = "transfer" /\ pc[j] = "transfer")
            /\ net[i].transfers + net[j].transfers <= 1

\* the number of places of a list that satisfy Test
CountWhere(list, Test(_)) == Cardinality({k \in DOMAIN list : Test(list[k])})

FailedWorkers == {i \in Records : result[i].status \in {"FAILED", "EXCEPTION"}}

\* C5: the list returned after the fan-out holds exactly one failure record
\* per worker that returned FAILED or raised, and none for a worker that
\* returned DOWNLOADED, EXISTED_SUBDIR or EXISTED_GLOBAL.
C5_OneFailureRecordPerFailedWorker ==
    returned.how = "fanout" =>
        /\ Len(returned.list) = Cardinality(FailedWorkers)
        /\ \A k \in DOMAIN returned.list :
              /\ returned.list[k].failure_reason /= ""
              /\ returned.list[k].original_input_json = current_file.stem
        /\ \A i \in Dispatched :
              LET id == papers_to_download[i].entry_id
                  SameId(rec) == rec.entry_id = id
              IN  CountWhere(returned.list, SameId) =
                    Cardinality({j \in FailedWorkers :
                                    papers_to_download[j].entry_id = id})

\* a batch returned in which one worker raised
C5_Witness ==
    /\ returned.how = "fanout"
    /\ \E i \in Records : result[i].status = "EXCEPTION"
    /\ Len(returned.list) = 2

\* C6: a record without identity is skipped before dispatch: no worker is
\* started for it, no counter counts it, and the list download_pdfs_from_json
\* returns holds no record for it.
C6_NoIdentityNeverReturned ==
    /\ \A i \in Records :
          ~Truthy(papers_to_download[i].entry_id) =>
              pc[i] \in {"unsubmitted", "skipped"} /\ result[i] = NoResult
    /\ mainpc = "returned" =>
          \A k \in DOMAIN returned.list : Truthy(returned.list[k].entry_id)

CountersTotal ==
    subdir_metadata.downloaded_here_count
    + subdir_metadata.existed_in_subdir_count
    + subdir_metadata.skipped_global_duplicate_count
    + subdir_metadata.failed_download_count

\* C7: a failure, timeout or exception of one worker stays with its record:
\* download_pdfs_from_json does not raise, and when the fan-out returns every
\* dispatched record was given exactly one outcome.
C7_FailureIsolated ==
    /\ mainpc /= "raised"
    /\ \A i \in Records :
          Finished(i) => result[i].status \in Statuses \cup {"EXCEPTION"}
    /\ program = "download" =>
          CountersTotal = Cardinality({i \in Records : pc[i] = "collected"})
    /\ returned.how = "fanout" =>
          /\ \A i \in Dispatched : pc[i] = "collected"
          /\ CountersTotal = Cardinality(Dispatched)

\* a batch returned with one worker failed and its sibling downloaded
C7_Witness ==
    /\ returned.how = "fanout"
    /\ \E i, j \in Records :
          /\ result[i].status = "FAILED"
          /\ result[i].reason = "timeout"
          /\ result[j].status = "DOWNLOADED"

\* C8: the number of fetch workers in flight never exceeds max_workers.
C8_InFlightBounded == Cardinality(InFlight) <= max_workers

\* the pool is full and a future waits in the queue
C8_Witness ==
    /\ Cardinality(InFlight) = max_workers
    /\ Queued /= {}

(***************************************************************************)
(* The ledger over successive runs of download.py.  A run is taken at its  *)
(* end, when __main__ holds the failures of all its batches in             *)
(* current_run_failures and merges them into the ledger of the output      *)
(* directory, which an earlier run may have left behind.                   *)
(***************************************************************************)
\* the ledger files a first run can find: none, a file of size 0, a file
\* json.load cannot parse
InitialLedgers ==
    { AbsentLedger,
      [exists |-> TRUE, content |-> "zero", papers |-> << >>, stamp |-> 0],
      [exists |-> TRUE, content |-> "bad", papers |-> << >>, stamp |-> 0] }

EmptyTree == [p \in Paths |-> "none"]

InitLedger ==
    /\ program = "download"
    /\ fs = EmptyTree
    /\ dirs = {}
    /\ GLOBAL_EXISTING_PDFS = << >>
    /\ global_deduplication = FALSE
    /\ scanned_index = << >>
    /\ batch_tree = fs
    /\ downloads = {}
    /\ download_source_pref = "export"
    /\ max_workers = 1
    /\ json_files = <<FileEmpty>>
    /\ file_idx = 1
    /\ mainpc = "done"
    /\ papers_to_download = << >>
    /\ pdf_output_subdir = None
    /\ next_submit = 1
    /\ pc = << >>
    /\ result = << >>
    /\ obs = << >>
    /\ net = << >>
    /\ linked = << >>
    /\ subdir_metadata = ZeroMetadata
    /\ metadata_written = <<0>>
    /\ batch_failed_paper_details = << >>
    /\ returned = NotReturned
    /\ overall_failed_downloads = << >>
    /\ ledger \in InitialLedgers
    /\ still_failed_after_retry = << >>
    /\ successfully_retried_count = 0
    /\ now = 1
    /\ fed = {}
    /\ refed = {}
    /\ call = NoCall
    /\ retval = << >>

\* the batches of one more run have returned their failures
RunReachesMerge ==
    /\ mainpc = "done"
    /\ now <= MaxMerges
    /\ \E current_run_failures \in FailureLists :
          overall_failed_downloads' = current_run_failures
    /\ mainpc' = "merge"
    /\ UNCHANGED <<treeVars, paramVars, file_idx, batchVars, taskVars,
                   subdir_metadata, metadata_written,
                   batch_failed_paper_details, returned, ledgerVars, histVars>>
    /\ UNCHANGED callVars

NextLedger ==
    \/ RunReachesMerge
    \/ FinishRun

SpecLedger == InitLedger /\ [][NextLedger]_vars

UniqueIds(papers) ==
    \A j, k \in DOMAIN papers :
        (j /= k /\ Truthy(papers[j].entry_id)) =>
            papers[j].entry_id /= papers[k].entry_id

\* C9: merging a failure list into the ledger is idempotent: whatever the
\* ledger and the list, merging the list a second time leaves the ledger the
\* first merge produced, and that ledger holds no identity twice.  The state
\* after FinishRun holds the list in overall_failed_downloads and the ledger
\* of the first merge; the second merge is applied to it.
C9_MergeIdempotent ==
    (mainpc = "done" /\ overall_failed_downloads /= << >>) =>
        LET once == ledger
            twice == append_to_failed_log(once, overall_failed_downloads, now)
        IN  /\ ExistingFailuresPapers(twice) = ExistingFailuresPapers(once)
            /\ twice.exists = once.exists
            /\ UniqueIds(ExistingFailuresPapers(once))

\* the last run merged a list all of whose identities were in the ledger
\* already, two of them, and the ledger file was left as the run before
\* wrote it
C9_Witness ==
    /\ mainpc = "done"
    /\ Cardinality(IdsOf(overall_failed_downloads)) = 2
    /\ IdsOf(overall_failed_downloads) \subseteq refed
    /\ ledger.exists
    /\ ledger.stamp < now - 1
    /\ IdsOf(ledger.papers) = IdsOf(overall_failed_downloads)

RecordsOfId(papers, entry_id) ==
    {papers[j] : j \in {k \in DOMAIN papers : papers[k].entry_id = entry_id}}

\* C11: a merge never overwrites an existing entry: every identity the
\* ledger held before the merge has, after it, the very record it had
\* before, whatever record the merged failure list carries for it.
C11_MergeKeepsExistingRecords ==
    [][\A entry_id \in IdsOf(ExistingFailuresPapers(ledger)) :
          RecordsOfId(ledger'.papers, entry_id) =
              RecordsOfId(ledger.papers, entry_id)]_vars

\* the ledger held X as the batch q_1 failed it ("timeout"); the last run
\* merged another record of X, failed by an exception in batch q_2, and the
\* ledger still holds the first one only
C11_Witness ==
    /\ mainpc = "done"
    /\ IdX \in refed
    /\ RecordsOfId(overall_failed_downloads, IdX) =
           {FailureRecord(PaperX2, "Execution exception", <<"q", "2">>)}
    /\ RecordsOfId(ledger.papers, IdX) =
           {FailureRecord(PaperX, "timeout", <<"q", "1">>)}

(***************************************************************************)
(* One ledger over a session of runs of download.py and passes of         *)
(* retry.py on the same output directory.  Each program is a new process: *)
(* its memory starts empty, the output tree and the ledger file are what   *)
(* the process before left.  A run of download.py is taken at its end, as  *)
(* in SpecLedger; a pass of retry.py is run in full.                       *)
(***************************************************************************)
\* the failure lists of the runs of a session: failure records of the
\* batches q_1 and q_2, and the raw records of a batch whose subdirectory
\* could not be created
SessionFailureLists ==
    { << >>,
      << FailureRecord(PaperX, "timeout", <<"q", "1">>) >>,
      << FailureRecord(PaperX, "timeout", <<"q", "1">>),
         FailureRecord(PaperY, "wget failed", <<"q", "1">>) >>,
      << FailureRecord(PaperX2, "Execution exception", <<"q", "2">>) >>,
      << PaperY, PaperN >> }

\* the output trees a session may start on: the file of IdX missing, of size
\* 0 or complete where a retry pass stores it
SessionTrees ==
    {t \in RetryTrees :
        t[PdfPath(SubdirOf(FileQ), sanitize_filename(IdX))] = "none"}

InitSession ==
    /\ program = "download"
    /\ fs \in SessionTrees
    /\ dirs = {d \in AllDirs : \E sid \in SafeIds : fs[PdfPath(d, sid)] /= "none"}
    /\ GLOBAL_EXISTING_PDFS = << >>
    /\ global_deduplication = FALSE
    /\ scanned_index = << >>
    /\ batch_tree = fs
    /\ downloads = {}
    /\ download_source_pref = "export"
    /\ max_workers = 1
    /\ json_files = <<FileEmpty>>
    /\ file_idx = 1
    /\ mainpc = "done"
    /\ papers_to_download = << >>
    /\ pdf_output_subdir = None
    /\ next_submit = 1
    /\ pc = << >>
    /\ result = << >>
    /\ obs = << >>
    /\ net = << >>
    /\ linked = << >>
    /\ subdir_metadata = ZeroMetadata
    /\ metadata_written = <<0>>
    /\ batch_failed_paper_details = << >>
    /\ returned = NotReturned
    /\ overall_failed_downloads = << >>
    /\ ledger \in InitialLedgers
    /\ still_failed_after_retry = << >>
    /\ successfully_retried_count = 0
    /\ now = 1
    /\ fed = {}
    /\ refed = {}
    /\ call = NoCall
    /\ retval = << >>

\* the memory of a process that has just started
NewProcess ==
    /\ GLOBAL_EXISTING_PDFS' = << >>
    /\ scanned_index' = << >>
    /\ batch_tree' = fs
    /\ downloads' = {}
    /\ papers_to_download' = << >>
    /\ next_submit' = 1
    /\ ResetTasks(<< >>)
    /\ still_failed_after_retry' = << >>
    /\ successfully_retried_count' = 0
    /\ UNCHANGED <<fs, dirs, download_source_pref, max_workers, json_files,
                   global_deduplication, file_idx, pdf_output_subdir,
                   subdir_metadata, metadata_written,
                   batch_failed_paper_details, returned, ledger, now, fed,
                   refed>>
    /\ UNCHANGED callVars

\* download.py is run once more and its batches have returned their failures
SessionRunReachesMerge ==
    /\ mainpc = "done"
    /\ now <= MaxMerges
    /\ program' = "download"
    /\ \E current_run_failures \in SessionFailureLists :
          overall_failed_downloads' = current_run_failures
    /\ mainpc' = "merge"
    /\ NewProcess

\* retry.py is started on the ledger (the session is cut after MaxMerges
\* operations, and its last operation is a run of download.py)
SessionStartRetry ==
    /\ mainpc = "done"
    /\ now < MaxMerges
    /\ program' = "retry"
    /\ overall_failed_downloads' = << >>
    /\ mainpc' = "start"
    /\ NewProcess

NextSession ==
    \/ SessionRunReachesMerge
    \/ FinishRun
    \/ SessionStartRetry
    \/ RetryNothingToDo
    \/ RetryScanOrClear
    \/ RetryLoad
    \/ RetrySubmit
    \/ \E i \in Records : RetryCollect(i)
    \/ RetryUpdateLedger
    \/ \E i \in Records : StartWorker(i)
    \/ \E i \in Records : CheckIndex(i)
    \/ \E i \in Records : CheckExists(i)
    \/ \E i \in Records : CheckSize(i)
    \/ \E i \in Records : StartTransfer(i)
    \/ \E i \in Records : TransferProgress(i)
    \/ \E i \in Records : TransferSucceeds(i)
    \/ \E i \in Records : TransferFails(i)

SpecSession == InitSession /\ [][NextSession]_vars

\* the retry pass has run its executor and updated the ledger
RetryPassDone == program = "retry" /\ mainpc = "done" /\ Records /= {}

\* the records of the ledger whose re-attempt returned a success status
SucceededOnRetry ==
    {i \in Records :
        /\ pc[i] = "collected"
        /\ result[i].status \in {"DOWNLOADED", "EXISTED_SUBDIR", "EXISTED_GLOBAL"}}

\* the records that were re-attempted and failed again or raised
FailedOnRetry == {i \in Records : pc[i] = "collected"} \ SucceededOnRetry

\* the records the pass did not re-attempt: no entry_id, or the target
\* subdirectory could not be created
NotRetried == {i \in Records : pc[i] = "skipped"}

\* C12: over a session of merges and retry passes on one ledger, an
\* identity the ledger holds before a step is absent after it only if the
\* step is the ledger update that ends a retry pass in which the re-attempt
\* of that identity returned DOWNLOADED, EXISTED_SUBDIR or EXISTED_GLOBAL;
\* the merge that ends a run of download.py removes no identity.
C12_OnlySuccessfulRetryRemoves ==
    [][/\ \A entry_id \in IdsOf(ExistingFailuresPapers(ledger)) :
              entry_id \notin IdsOf(ExistingFailuresPapers(ledger')) =>
                  /\ program = "retry"
                  /\ mainpc = "retry_drain"
                  /\ \E i \in Records :
                        /\ papers_to_download[i].entry_id = entry_id
                        /\ pc[i] = "collected"
                        /\ result[i].status \in
                              {"DOWNLOADED", "EXISTED_SUBDIR", "EXISTED_GLOBAL"}
       /\ mainpc = "merge" =>
              IdsOf(ExistingFailuresPapers(ledger)) \subseteq
                  IdsOf(ExistingFailuresPapers(ledger'))]_vars

\* a run left X and Y in the ledger; the retry pass downloaded X and failed
\* Y again, and the ledger it wrote holds Y only
C12_Witness ==
    /\ program = "retry"
    /\ mainpc = "done"
    /\ fed = {IdX, IdY}
    /\ IdsOf(papers_to_download) = {IdX, IdY}
    /\ \E i, j \in Records :
          /\ papers_to_download[i].entry_id = IdX
          /\ result[i].status = "DOWNLOADED"
          /\ papers_to_download[j].entry_id = IdY
          /\ result[j].status = "FAILED"
    /\ ledger.exists
    /\ IdsOf(ledger.papers) = {IdY}

\* C13: from an absent ledger (or a file that holds no record), after any
\* sequence of runs of download.py with their merge and of retry passes, the
\* ledger file holds at most one record per identity.
C13_OneRecordPerIdentity ==
    UniqueIds(ExistingFailuresPapers(ledger))

\* X and Y were merged, a retry pass downloaded X and failed Y again, and
\* the next run failed both again: the ledger holds the retried record of Y
\* and a new record of X, one each
C13_Witness ==
    /\ program = "download"
    /\ mainpc = "done"
    /\ now = 4
    /\ IdsOf(overall_failed_downloads) = {IdX, IdY}
    /\ Len(ledger.papers) = 2
    /\ \E j, k \in DOMAIN ledger.papers :
          /\ ledger.papers[j].entry_id = IdY
          /\ ledger.papers[j].retry_attempt_failed_reason /= ""
          /\ ledger.papers[k].entry_id = IdX
          /\ ledger.papers[k].retry_attempt_failed_reason = ""

\* record r is record q of the ledger with the two retry fields set, the
\* reason to a non-empty text
MarkedCopyOf(r, q) ==
    /\ r.retry_attempt_failed_reason /= ""
    /\ [r EXCEPT !.retry_attempt_failed_reason = q.retry_attempt_failed_reason,
                 !.last_retry_timestamp = q.last_retry_timestamp] = q

TransferAttemptFails(i) ==
    /\ pc[i] \in {"resolve", "transfer"}
    /\ pc'[i] = "done"
    /\ result'[i].status = "FAILED"
    /\ Truthy(obs'[i].url)

\* the clean-up of that step called os.remove and it raised OSError: the
\* file at the target is still the one that was there
DeletionFails(i) ==
    /\ pc[i] = "transfer"
    /\ fs[Target(i)] /= "none"
    /\ fs'[Target(i)] = fs[Target(i)]

\* C16: whenever a fetch returns FAILED after attempting a transfer
\* (timeout, non-zero exit of wget, wget missing, any other exception) and
\* the deletion does not fail, no file is at the target path afterwards, a
\* file of size 0 that was there before the attempt included.
C16_NoFileAfterFailedTransfer ==
    [][\A i \in Records :
          (TransferAttemptFails(i) /\ ~DeletionFails(i)) =>
              fs'[Target(i)] = "none"]_vars

(***************************************************************************)
(* download_single_pdf called on one record, whatever the record: the      *)
(* function itself, without the filter its callers put before it.          *)
(***************************************************************************)
\* the records the function is called on
FetchRecords == {PaperX, PaperX2, PaperY, PaperN, PaperU}

InitFetch ==
    /\ program = "download"
    /\ fs \in InitialTrees
    /\ dirs = {SubdirOf(FileQ)} \cup
              {d \in AllDirs : \E sid \in SafeIds : fs[PdfPath(d, sid)] /= "none"}
    /\ GLOBAL_EXISTING_PDFS \in
           {<< >>} \cup {ScannedIndex(fs, order) : order \in DirOrders}
    /\ global_deduplication = (GLOBAL_EXISTING_PDFS /= << >>)
    /\ scanned_index = GLOBAL_EXISTING_PDFS
    /\ batch_tree = fs
    /\ downloads = {}
    /\ download_source_pref \in Policies
    /\ max_workers = 1
    /\ json_files = <<FileQ>>
    /\ file_idx = 1
    /\ mainpc = "drain"
    /\ papers_to_download \in {<<paper_details>> : paper_details \in FetchRecords}
    /\ pdf_output_subdir = SubdirOf(FileQ)
    /\ next_submit = 2
    /\ pc = <<"queued">>
    /\ result = <<NoResult>>
    /\ obs = <<NoObs>>
    /\ net = <<NoNet>>
    /\ linked = <<FALSE>>
    /\ subdir_metadata = ZeroMetadata
    /\ metadata_written = <<0>>
    /\ batch_failed_paper_details = << >>
    /\ returned = NotReturned
    /\ overall_failed_downloads = << >>
    /\ ledger = AbsentLedger
    /\ still_failed_after_retry = << >>
    /\ successfully_retried_count = 0
    /\ now = 1
    /\ fed = {}
    /\ refed = {}
    /\ call = NoCall
    /\ retval = << >>

NextFetch ==
    \/ \E i \in Records : StartWorker(i)
    \/ \E i \in Records : CheckIndex(i)
    \/ \E i \in Records : CheckExists(i)
    \/ \E i \in Records : CheckSize(i)
    \/ \E i \in Records : StartTransfer(i)
    \/ \E i \in Records : TransferProgress(i)
    \/ \E i \in Records : TransferSucceeds(i)
    \/ \E i \in Records : TransferFails(i)

SpecFetch == InitFetch /\ [][NextFetch]_vars

\* C17: a fetch on a record without a non-empty identity returns FAILED
\* with a reason and no path, at its first step, and changes nothing: the
\* output tree, the directories and the index are as they were, and no
\* probe or transfer was started.
C17_NoIdentityFailsUntouched ==
    [][\A i \in Records :
          (~Truthy(papers_to_download[i].entry_id) /\ pc[i] /= pc'[i]) =>
              /\ pc[i] = "queued" /\ pc'[i] = "done"
              /\ result'[i].status = "FAILED"
              /\ result'[i].path = None
              /\ result'[i].reason /= ""
              /\ net'[i] = NoNet
              /\ UNCHANGED <<fs, dirs, GLOBAL_EXISTING_PDFS, linked>>]_vars

\* the fetch of a record that has a pdf_url and no entry_id has returned,
\* under the policy "fastest", with a scanned index and files in the tree
C17_Witness ==
    /\ papers_to_download = <<PaperU>>
    /\ pc = <<"done">>
    /\ result[1].status = "FAILED"
    /\ download_source_pref = "fastest"
    /\ GLOBAL_EXISTING_PDFS /= << >>
    /\ fs[PdfPath(SubdirOf(FileQ), sanitize_filename(IdX))] = "empty"

\* the fetches that have resolved their source
Resolved == {i \in Records : Truthy(obs[i].url)}

\* C18: the URL a fetch transfers from is, under "primary", the pdf_url of
\* the record when it has one and the export mirror URL of its identity
\* otherwise (never an error); under "export", the mirror URL, whether the
\* record has a pdf_url or not; under "fastest", a URL choose_best_download_url
\* returns for the record.
C18_PolicySelectsUrl ==
    /\ \A i \in Resolved :
          LET paper_details == papers_to_download[i]
              export_mirror_url == ExportMirrorUrl(paper_details.entry_id)
          IN  /\ download_source_pref = "primary" =>
                    obs[i].url = IF Truthy(paper_details.pdf_url)
                                 THEN paper_details.pdf_url
                                 ELSE export_mirror_url
              /\ download_source_pref = "export" =>
                    obs[i].url = export_mirror_url
              /\ download_source_pref = "fastest" =>
                    \E s_primary \in Speeds, s_mirror \in Speeds :
                        obs[i].url = choose_best_download_url(
                                         paper_details.entry_id,
                                         paper_details.pdf_url,
                                         s_primary, s_mirror)[1]
    /\ \A i \in Records :
          (pc[i] = "transfer" \/ net[i].transfers > 0) => i \in Resolved
    /\ \A i \in Records : result[i].reason /= "no download url"

\* under "export" a record with a primary URL at arxiv.org is being
\* transferred from the mirror
C18_Witness ==
    /\ download_source_pref = "export"
    /\ papers_to_download = <<PaperX>>
    /\ pc = <<"transfer">>
    /\ PaperX.pdf_url /= ExportMirrorUrl(IdX)
    /\ obs[1].url = ExportMirrorUrl(IdX)

(***************************************************************************)
(* Functions called on their own.  The program is not running: its        *)
(* variables stay as a process finds them before its first statement;     *)
(* call holds the name of the function and its arguments, retval what it   *)
(* returned.                                                               *)
(***************************************************************************)
ProgramNotStarted ==
    /\ program = "download"
    /\ fs = EmptyTree
    /\ dirs = {}
    /\ GLOBAL_EXISTING_PDFS = << >>
    /\ global_deduplication = FALSE
    /\ scanned_index = << >>
    /\ batch_tree = fs
    /\ downloads = {}
    /\ download_source_pref = "fastest"
    /\ max_workers = 1
    /\ json_files = <<FileEmpty>>
    /\ file_idx = 1
    /\ mainpc = "start"
    /\ papers_to_download = << >>
    /\ pdf_output_subdir = None
    /\ next_submit = 1
    /\ pc = << >>
    /\ result = << >>
    /\ obs = << >>
    /\ net = << >>
    /\ linked = << >>
    /\ subdir_metadata = ZeroMetadata
    /\ metadata_written = <<0>>
    /\ batch_failed_paper_details = << >>
    /\ returned = NotReturned
    /\ overall_failed_downloads = << >>
    /\ ledger = AbsentLedger
    /\ still_failed_after_retry = << >>
    /\ successfully_retried_count = 0
    /\ now = 1
    /\ fed = {}
    /\ refed = {}

progVars ==
    <<treeVars, paramVars, histVars, batchVars, taskVars, outVars, ledgerVars,
      file_idx, mainpc>>

\* choose_best_download_url(entry_id, primary_pdf_url), with what the two
\* calls of measure_speed return: an elapsed time, or Inf after any error
ChooseCalls ==
    [fn : {"choose_best_download_url"},
     entry_id : {IdX, IdY},
     primary_pdf_url : {None, <<"arxiv.org", IdX>>, <<"arxiv.org", IdY>>,
                        ExportMirrorUrl(IdX)},
     s_primary : Speeds,
     s_mirror : Speeds]

InitChoose ==
    /\ ProgramNotStarted
    /\ call \in ChooseCalls
    /\ retval = << >>

Call_choose_best_download_url ==
    /\ call.fn = "choose_best_download_url"
    /\ retval = << >>
    /\ retval' = << choose_best_download_url(call.entry_id, call.primary_pdf_url,
                                             call.s_primary, call.s_mirror) >>
    /\ UNCHANGED <<progVars, call>>

NextChoose == Call_choose_best_download_url

SpecChoose == InitChoose /\ [][NextChoose]_vars

\* the call had two candidates: a primary URL, and a mirror URL that
\* differs from it
TwoCandidates ==
    /\ Truthy(call.primary_pdf_url)
    /\ ExportMirrorUrl(call.entry_id) /= call.primary_pdf_url

\* C19: with two candidate URLs choose_best_download_url probes both and
\* returns the one whose probe took the least time (the mirror when the
\* probe of the primary failed and that of the mirror did not); when both
\* probes failed it returns the primary URL; whatever the probes gave, it
\* returns one of the two URLs, never None.
C19_FastestCandidateChosen ==
    (retval /= << >> /\ TwoCandidates) =>
        LET chosen_url == retval[1][1]
            export_mirror_url == ExportMirrorUrl(call.entry_id)
        IN  /\ retval[1][2] = 2
            /\ chosen_url \in {call.primary_pdf_url, export_mirror_url}
            /\ call.s_mirror < call.s_primary => chosen_url = export_mirror_url
            /\ call.s_primary < call.s_mirror => chosen_url = call.primary_pdf_url
            /\ (call.s_primary = Inf /\ call.s_mirror = Inf) =>
                   chosen_url = call.primary_pdf_url

\* the probe of the primary URL failed, that of the mirror took 2: the
\* mirror URL was returned
C19_Witness ==
    /\ TwoCandidates
    /\ call.s_primary = Inf
    /\ call.s_mirror = 2
    /\ retval = << <<ExportMirrorUrl(call.entry_id), 2>> >>

\* a suffix _YYYYMMDD_HHMMSS as search.py puts it at the end of a file name
TimestampSuffix ==
    <<"_","2","0","2","4","0","1","0","1","_","1","2","0","0","0","0">>

\* the keyword and category of query_details: missing, plain, with a blank,
\* and without any character a directory name keeps
Keywords == {None, <<"q">>, <<"a", " ", "b">>, <<"!">>}
Categories == {None, <<"c", "s", ".", "A", "I">>}

\* the stems of the JSON file names: plain, with a timestamp suffix, the
\* suffix alone, a stem no character of which is kept, and one with a run
\* of underscores
Stems ==
    { <<"r">>,
      <<"r">> \o TimestampSuffix,
      TimestampSuffix,
      <<"?">>,
      <<"a", "_", "_", "b">> }

\* the subdirectory name is built for two JSON files that carry the same
\* keyword and category
PartitionCalls ==
    [fn : {"pdf_output_subdir_name"},
     keyword : Keywords,
     category : Categories,
     stem : Stems,
     other_stem : Stems]

InitPartition ==
    /\ ProgramNotStarted
    /\ call \in PartitionCalls
    /\ retval = << >>

Call_pdf_output_subdir_name ==
    /\ call.fn = "pdf_output_subdir_name"
    /\ retval = << >>
    /\ retval' = << pdf_output_subdir_name(call.keyword, call.category, call.stem),
                    pdf_output_subdir_name(call.keyword, call.category,
                                           call.other_stem) >>
    /\ UNCHANGED <<progVars, call>>

NextPartition == Call_pdf_output_subdir_name

SpecPartition == InitPartition /\ [][NextPartition]_vars

\* the name derived from the name of the JSON file: the stem without its
\* timestamp suffix, sanitized, or the fixed default when nothing is left
DerivedFromFilename(stem) ==
    LET n == Len(stem)
        seed == IF /\ n >= Len(TimestampSuffix)
                   /\ HasTimestampSuffix(stem)
                THEN SubSeq(stem, 1, n - Len(TimestampSuffix))
                ELSE stem
        derived == sanitize_for_dirname(seed, FilenameMaxLen)
    IN  IF derived /= << >> THEN derived ELSE UnknownQueryParameters

\* C20: the subdirectory name is a function of the keyword and the category
\* alone when one of them is given: two JSON files with the same pair get
\* the same name, whatever they are called.  When both are empty the name
\* is derived from the name of the JSON file (its stem without a trailing
\* _YYYYMMDD_HHMMSS, sanitized), and is the fixed default when that is
\* empty too.  The name is never empty.
C20_PartitionNameDeterministic ==
    retval /= << >> =>
        /\ retval[1] /= << >> /\ retval[2] /= << >>
        /\ (Truthy(call.keyword) \/ Truthy(call.category)) =>
               /\ retval[1] = retval[2]
               /\ retval[1] = JoinUnderscore(
                                  SubdirNameParts(call.keyword, call.category))
        /\ (~Truthy(call.keyword) /\ ~Truthy(call.category)) =>
               /\ retval[1] = DerivedFromFilename(call.stem)
               /\ retval[2] = DerivedFromFilename(call.other_stem)

\* keyword "a b" and category "cs.AI" gave kw_a_b_cat_cs.AI for a file
\* named r_<timestamp> and for a file named "?"
C20_Witness ==
    /\ call.keyword = <<"a", " ", "b">>
    /\ call.category = <<"c", "s", ".", "A", "I">>
    /\ call.stem = <<"r">> \o TimestampSuffix
    /\ call.other_stem = <<"?">>
    /\ retval = << <<"k","w","_","a","_","b","_","c","a","t","_","c","s",".","A","I">>,
                   <<"k","w","_","a","_","b","_","c","a","t","_","c","s",".","A","I">> >>

(***************************************************************************)
(* Directory mode: process_directory over several JSON files of one input  *)
(* directory, in one process.                                              *)
(***************************************************************************)
\* the input directories: the identity of PaperX in two batches of different
\* subdirectories, in two batches of one subdirectory, behind a file that
\* cannot be parsed or holds no papers, and before a file that cannot be
\* decoded
DirRuns == { <<FileDup, FileC>>, <<FileX, FileXAgain>>, <<FileBad, FileC>>,
             <<FileEmpty, FileX>>, <<FileX, FileUndecodable>> }

\* the output trees a directory run may find: nothing, the file of IdX where
\* the category batch stores it, or an empty file where the keyword batches
\* store it
DirTrees ==
    {t \in InitialTrees :
        /\ t[PdfPath(SubdirOf(FileQ), sanitize_filename(IdY))] = "none"
        /\ \/ \A q \in Paths : t[q] = "none"
           \/ /\ t[PdfPath(SubdirOf(FileC), sanitize_filename(IdX))] = "full"
              /\ t[PdfPath(SubdirOf(FileQ), sanitize_filename(IdX))] = "none"
           \/ /\ t[PdfPath(SubdirOf(FileC), sanitize_filename(IdX))] = "none"
              /\ t[PdfPath(SubdirOf(FileQ), sanitize_filename(IdX))] = "empty"}

\* download.py started in directory mode on one of the input directories
InitDirectoryMode(input_dirs) ==
    /\ program = "download"
    /\ fs \in DirTrees
    /\ dirs = {d \in AllDirs : \E sid \in SafeIds : fs[PdfPath(d, sid)] /= "none"}
    /\ GLOBAL_EXISTING_PDFS = << >>
    /\ global_deduplication \in BOOLEAN
    /\ scanned_index = << >>
    /\ batch_tree = fs
    /\ downloads = {}
    /\ download_source_pref \in Policies
    /\ max_workers \in 1..MaxWorkers
    /\ json_files \in input_dirs
    /\ file_idx = 1
    /\ mainpc = "start"
    /\ papers_to_download = << >>
    /\ pdf_output_subdir = None
    /\ next_submit = 1
    /\ pc = << >>
    /\ result = << >>
    /\ obs = << >>
    /\ net = << >>
    /\ linked = << >>
    /\ subdir_metadata = ZeroMetadata
    /\ metadata_written = [k \in DOMAIN json_files |-> 0]
    /\ batch_failed_paper_details = << >>
    /\ returned = NotReturned
    /\ overall_failed_downloads = << >>
    /\ ledger = AbsentLedger
    /\ still_failed_after_retry = << >>
    /\ successfully_retried_count = 0
    /\ now = 1
    /\ fed = {}
    /\ refed = {}
    /\ call = NoCall
    /\ retval = << >>

InitDir == InitDirectoryMode(DirRuns)

NextDir ==
    \/ ScanGlobalOutputDirectory
    \/ SkipGlobalScan
    \/ LoadJson
    \/ MakeDirsOk
    \/ MakeDirsFails
    \/ Submit
    \/ \E i \in Records : StartWorker(i)
    \/ \E i \in Records : CheckIndex(i)
    \/ \E i \in Records : CheckExists(i)
    \/ \E i \in Records : CheckSize(i)
    \/ \E i \in Records : StartTransfer(i)
    \/ \E i \in Records : TransferProgress(i)
    \/ \E i \in Records : TransferSucceeds(i)
    \/ \E i \in Records : TransferFails(i)
    \/ \E i \in Records : Collect(i)
    \/ WriteMetadataAndReturn
    \/ NextJsonFile
    \/ FinishRun

SpecDir == InitDir /\ [][NextDir]_vars

\* every worker of the batch being processed has returned and was collected
WorkersReturned == \A i \in Records : pc[i] \in {"skipped", "collected"}

\* a step in which a pool thread takes a queued future
WorkerStarts ==
    \E i \in DOMAIN pc \cap DOMAIN pc' : pc[i] = "queued" /\ pc'[i] /= "queued"

\* a step that writes _metadata.json writes it for the batch being
\* processed, for the first time, after all its workers returned
MetadataAfterWorkers ==
    metadata_written' /= metadata_written =>
        /\ WorkersReturned
        /\ metadata_written[file_idx] = 0
        /\ metadata_written' = [metadata_written EXCEPT ![file_idx] = 1]

\* a worker starts only in the batch being processed, whose metadata is not
\* written yet, when no later batch has begun
WorkerOfCurrentBatchOnly ==
    WorkerStarts =>
        /\ metadata_written[file_idx] = 0
        /\ \A k \in DOMAIN json_files : k > file_idx => metadata_written[k] = 0

EarlierDownloads(i) ==
    {k \in 1..(file_idx - 1) : <<k, SafeIdOf(i)>> \in downloads}

\* C22: in a run that skipped the scan of the output root, a record whose
\* identity was DOWNLOADED in an earlier batch of the run is never checked
\* against the file system and never transferred: its fetch returns
\* EXISTED_SUBDIR when its subdirectory is the one of that batch and
\* EXISTED_GLOBAL when it is another one, with no probe and no transfer.
C22_NoDuplicateAcrossBatches ==
    (program = "download" /\ ~global_deduplication) =>
        \A i \in WithIdentity : \A k \in EarlierDownloads(i) :
            /\ pc[i] \in {"unsubmitted", "queued", "index", "done", "collected"}
            /\ net[i] = NoNet
            /\ Finished(i) =>
                   result[i].status =
                       (IF TargetDir(i) = SubdirOf(json_files[k])
                        THEN "EXISTED_SUBDIR" ELSE "EXISTED_GLOBAL")

\* the identity downloaded by the keyword batch is met again by the
\* category batch, which returns EXISTED_GLOBAL
C22_Witness ==
    /\ ~global_deduplication
    /\ json_files = <<FileDup, FileC>>
    /\ file_idx = 2
    /\ \E i \in WithIdentity :
          /\ EarlierDownloads(i) /= {}
          /\ Finished(i)
          /\ result[i].status = "EXISTED_GLOBAL"

\* the identity downloaded by a keyword batch is met again by a batch of
\* the same subdirectory, which returns EXISTED_SUBDIR
SamePartitionAgain ==
    /\ ~global_deduplication
    /\ json_files = <<FileX, FileXAgain>>
    /\ file_idx = 2
    /\ \E i \in WithIdentity :
          /\ EarlierDownloads(i) /= {}
          /\ Finished(i)
          /\ result[i].status = "EXISTED_SUBDIR"

\* GLOBAL_EXISTING_PDFS is a dict from safe identities to paths: one path
\* for each identity it holds
OnePathPerIdentity ==
    /\ DOMAIN GLOBAL_EXISTING_PDFS \subseteq SafeIds
    /\ \A sid \in DOMAIN GLOBAL_EXISTING_PDFS :
          /\ GLOBAL_EXISTING_PDFS[sid] \in Paths
          /\ GLOBAL_EXISTING_PDFS[sid][2] = sid

\* C23: the Dedup Index maps each safe identity it holds to one path, the
\* path of a file named after that identity, and no step of a run, from the
\* scan (download) or the scan-or-clear (retry) on, takes an identity out of
\* it.
C23_IndexOnlyGrows ==
    [][/\ DOMAIN GLOBAL_EXISTING_PDFS \subseteq DOMAIN GLOBAL_EXISTING_PDFS'
       /\ OnePathPerIdentity']_vars

\* the index holds an identity found by the scan and an identity stored by
\* a fetch of the run
C23_Witness ==
    /\ DOMAIN scanned_index /= {}
    /\ DOMAIN GLOBAL_EXISTING_PDFS \ DOMAIN scanned_index /= {}
    /\ DOMAIN scanned_index \subseteq DOMAIN GLOBAL_EXISTING_PDFS

(***************************************************************************)
(* Progress of a batch.  The main thread runs on; a pool thread that is    *)
(* free takes a queued future; a thread inside download_single_pdf runs    *)
(* on; a probe ends by its answer or by the timeout of requests.get, and   *)
(* wget ends by its exit or by the timeout of subprocess.run.              *)
(***************************************************************************)
\* the input directories of the progress runs: one batch whose two workers
\* race, and a batch behind a file that cannot be parsed
FairRuns == { <<FileDup>>, <<FileBad, FileX>> }

\* the progress runs start on an empty output root and probe the two
\* candidate URLs of every record they transfer
InitFair ==
    /\ InitDirectoryMode(FairRuns)
    /\ download_source_pref = "fastest"
    /\ \A q \in Paths : fs[q] = "none"

\* the positions of the records in the batches
RecordIds == UNION {DOMAIN f.papers : f \in AllFiles}

\* a step of the main thread
MainThreadStep ==
    \/ ScanGlobalOutputDirectory
    \/ SkipGlobalScan
    \/ LoadJson
    \/ MakeDirsOk
    \/ MakeDirsFails
    \/ Submit
    \/ \E i \in Records : Collect(i)
    \/ WriteMetadataAndReturn
    \/ NextJsonFile
    \/ FinishRun

\* a step of the pool thread that runs the future of record i, the end of
\* its transfer included; the bytes wget writes meanwhile are no progress
\* of the thread
WorkerStep(i) ==
    /\ i \in Records
    /\ \/ StartWorker(i)
       \/ CheckIndex(i)
       \/ CheckExists(i)
       \/ CheckSize(i)
       \/ StartTransfer(i)
       \/ TransferSucceeds(i)
       \/ TransferFails(i)

Fairness ==
    /\ WF_vars(MainThreadStep)
    /\ \A i \in RecordIds : WF_vars(WorkerStep(i))

SpecFair == InitFair /\ [][NextDir]_vars /\ Fairness

\* the future of record i was handed to the executor and has not returned
Pending(i) == i \in Records /\ pc[i] \in {"queued"} \cup RunningStates

DistinctIdentities ==
    \A i, j \in WithIdentity :
        i /= j => papers_to_download[i].entry_id /= papers_to_download[j].entry_id

\* the outcomes record i can have, given the index and the tree the batch
\* started with: the transfer result decides only when neither knows it
OutcomesFromStart(i) ==
    LET verdict == IndexVerdict(scanned_index, SafeIdOf(i), Target(i))
    IN  IF verdict /= "" THEN {verdict}
        ELSE IF NonZeroSize(batch_tree[Target(i)]) THEN {"EXISTED_SUBDIR"}
        ELSE {"DOWNLOADED", "FAILED"}

\* the number of records of the batch whose outcome is counted in a counter
Tally(counter) ==
    Cardinality({i \in WithIdentity : CounterOf(result[i].status) = counter})

\* the failure records the outcomes of the batch call for
FailuresOfOutcomes ==
    {FailureRecordOf(i, result[i].reason) :
        i \in {j \in WithIdentity : result[j].status = "FAILED"}}

RunOver == program = "download" /\ mainpc \in {"done", "raised"}

\* every batch file of the input directory was handed to
\* download_pdfs_from_json and the call returned
AllBatchesProcessed ==
    /\ file_idx = Len(json_files)
    /\ mainpc \in {"merge", "done"}

\* the identities of the failures of all batches are in the ledger file
FailuresMerged ==
    IdsOf(overall_failed_downloads) \subseteq IdsOf(ExistingFailuresPapers(ledger))

\* C26: in a directory run a batch given up because its file is missing or
\* cannot be parsed, or because its subdirectory cannot be created, does
\* not end the run: no exception leaves process_directory, and when the run
\* is over every batch file was processed and the failures of all batches
\* are in the ledger.
C26_AbandonedBatchDoesNotAbort ==
    RunOver => /\ mainpc = "done"
               /\ AllBatchesProcessed
               /\ FailuresMerged

\* the runs whose abandoned batches are those the code catches do go on:
\* after a JSONDecodeError, a FileNotFoundError, a file without papers or a
\* failed makedirs the remaining files are processed and the failures merged
CaughtAbandonsGoOn ==
    (RunOver /\ \A k \in DOMAIN json_files : json_files[k].kind /= "undecodable")
        => /\ mainpc = "done"
           /\ AllBatchesProcessed
           /\ FailuresMerged

\* a run went on after its first batch was given up for a failed makedirs,
\* and merged the records of both batches
AbandonedThenMerged ==
    /\ RunOver
    /\ json_files = <<FileDup, FileC>>
    /\ Len(overall_failed_downloads) = 3
    /\ ledger.exists

\* the ledger file a retry pass has nothing to do with: missing, of size
\* zero, not readable as JSON, or with an empty list of papers
NoRecordsIn(L) == ~L.exists \/ L.content /= "json" \/ L.papers = << >>

\* C27: a retry pass over a ledger that is missing, empty or unreadable
\* changes nothing that persists: in none of its steps is a future
\* submitted or a worker started, a directory or a file created or changed,
\* or the ledger file written or removed.
C27_RetryOfEmptyLedgerIsNoOp ==
    [][(program = "retry" /\ NoRecordsIn(ledger)) =>
          /\ ledger' = ledger
          /\ fs' = fs
          /\ dirs' = dirs
          /\ pc' = << >>
          /\ net' = << >>
          /\ mainpc' \in {"retry_load", "done"}]_vars

\* a retry pass with the scan enabled found files, could not parse the
\* ledger and ended
C27_Witness ==
    /\ program = "retry"
    /\ mainpc = "done"
    /\ ledger.exists
    /\ ledger.content = "bad"
    /\ DOMAIN scanned_index /= {}
    /\ fs = batch_tree

\* a merge has returned: overall_failed_downloads holds the list it was
\* given, ledger the file it left
MergeReturned ==
    program = "download" /\ mainpc = "done" /\ overall_failed_downloads /= << >>

\* the new failures without entry_id of the merge that returned
NewWithoutIdentity ==
    {overall_failed_downloads[k] : k \in
        {j \in DOMAIN overall_failed_downloads :
            ~Truthy(overall_failed_downloads[j].entry_id)}}

PersistedPapers ==
    {ExistingFailuresPapers(ledger)[j] : j \in DOMAIN ExistingFailuresPapers(ledger)}

\* C28: after a merge returns, every new failure record without identity is
\* among the papers of the ledger file, whether the file existed before or
\* not and whether the merge added records with identity or not.
C28_NoIdentityFailuresPersisted ==
    MergeReturned => NewWithoutIdentity \subseteq PersistedPapers

\* the merge wrote the ledger file: its time stamp is the time of the merge
MergeWrote == ledger.exists /\ ledger.content = "json" /\ ledger.stamp = now - 1

\* what the code does ensure: the new failures without identity are in the
\* ledger of every merge that wrote the file
NoIdentityPersistedWhenWritten ==
    (MergeReturned /\ MergeWrote) => NewWithoutIdentity \subseteq PersistedPapers

\* a merge into an existing ledger was given a record without identity
\* only, and wrote nothing
NoIdentityOnlyMergeReached ==
    /\ MergeReturned
    /\ ~MergeWrote
    /\ ledger.exists /\ ledger.content = "json"
    /\ NewWithoutIdentity /= {}
    /\ ~(NewWithoutIdentity \subseteq PersistedPapers)

\* the step of __main__ that calls append_to_failed_log
MergeStep ==
    /\ program = "download"
    /\ mainpc = "merge"
    /\ mainpc' = "done"
    /\ overall_failed_downloads /= << >>

\* the records a ledger file holds, as a set
PapersIn(L) ==
    {ExistingFailuresPapers(L)[j] : j \in DOMAIN ExistingFailuresPapers(L)}

\* every new failure has an identity that the existing ledger already holds
AllAlreadyInLedger ==
    /\ ledger.exists /\ ledger.content = "json"
    /\ \A k \in DOMAIN overall_failed_downloads :
          /\ Truthy(overall_failed_downloads[k].entry_id)
          /\ overall_failed_downloads[k].entry_id
                \in IdsOf(ExistingFailuresPapers(ledger))

\* C29: a merge writes the ledger file only if the file did not exist or
\* the set of records changed, and a merge whose new failures all have
\* identities of an existing ledger leaves the file as it is, its time
\* stamp included.
C29_RewrittenOnlyIfChanged ==
    [][MergeStep =>
          /\ ledger' /= ledger => (~ledger.exists \/ PapersIn(ledger') /= PapersIn(ledger))
          /\ AllAlreadyInLedger => ledger' = ledger]_vars

\* a merge of two failures whose identities the ledger held has returned
\* and the ledger still has the time stamp of an earlier merge
C29_Witness ==
    /\ program = "download"
    /\ mainpc = "done"
    /\ Len(overall_failed_downloads) = 2
    /\ overall_failed_downloads[1].entry_id /= overall_failed_downloads[2].entry_id
    /\ AllAlreadyInLedger
    /\ ledger.stamp < now - 1

\* a record with an identity, a failure reason and the name of the batch
\* file it came from
IsFailureRecord(r) ==
    /\ Truthy(r.entry_id)
    /\ r.failure_reason /= ""
    /\ Truthy(r.original_input_json)

\* C30: every record of the list download_pdfs_from_json returns, by
\* whatever path it returns, is a failure record: it has an identity, a
\* failure reason and the reference to its batch file.
C30_ReturnedAreFailureRecords ==
    (program = "download" /\ mainpc = "returned") =>
        \A k \in DOMAIN returned.list : IsFailureRecord(returned.list[k])

\* the list returned after the fan-out, worker faults included, holds
\* failure records of the batch file only
FanOutReturnsFailureRecords ==
    (program = "download" /\ mainpc = "returned" /\ returned.how = "fanout") =>
        \A k \in DOMAIN returned.list :
            /\ IsFailureRecord(returned.list[k])
            /\ returned.list[k].original_input_json = current_file.stem

\* a batch returned the failure record of a worker that raised
WorkerFaultReturned ==
    /\ program = "download"
    /\ mainpc = "returned"
    /\ returned.how = "fanout"
    /\ \E k \in DOMAIN returned.list :
          returned.list[k].failure_reason = "Execution exception"

\* a facet of query_details that is absent, or of which sanitize_for_dirname
\* keeps nothing
CollapsesToEmpty(facet, max_len) ==
    ~Truthy(facet) \/ sanitize_for_dirname(facet, max_len) = << >>

\* C31: when the keyword and the category are both absent or both collapse
\* to the empty string, the subdirectory name is the name derived from the
\* JSON file (the fixed default when that is empty), never a bare prefix.
C31_CollapsedFacetsFallBack ==
    (/\ retval /= << >>
     /\ call.fn = "pdf_output_subdir_name"
     /\ CollapsesToEmpty(call.keyword, KeywordMaxLen)
     /\ CollapsesToEmpty(call.category, CategoryMaxLen)) =>
        /\ retval[1] = DerivedFromFilename(call.stem)
        /\ retval[1] /= KwPrefix
        /\ retval[1] /= CatPrefix

\* a keyword of which nothing is kept, with no category, gave the name kw_
BarePrefixReached ==
    /\ retval /= << >>
    /\ call.fn = "pdf_output_subdir_name"
    /\ call.keyword = <<"!">>
    /\ call.category = None
    /\ retval[1] = KwPrefix

(***************************************************************************)
(* determine_target_subdir of retry.py against the subdirectory name of    *)
(* download_pdfs_from_json, for one record of one batch file.              *)
(***************************************************************************)
\* the batch file (readable or not when the retry pass looks for it, its
\* keyword, category and stem) and the facet fields of the ledger record
TargetCalls ==
    [fn : {"determine_target_subdir"},
     readable : BOOLEAN,
     keyword : {None, <<"q">>},
     category : {None, <<"c">>},
     stem : {<<"r">>, <<"r">> \o TimestampSuffix},
     keyword_from_query : {None, <<"z">>},
     category_from_query : {None, <<"d">>},
     primary_category : {None, <<"c">>}]

InitTarget ==
    /\ ProgramNotStarted
    /\ call \in TargetCalls
    /\ retval = << >>

\* the name the retry pass derives, and the name the batch run used
Call_determine_target_subdir ==
    /\ call.fn = "determine_target_subdir"
    /\ retval = << >>
    /\ retval' = << target_subdir_name(call.readable, call.keyword, call.category,
                                       call.keyword_from_query,
                                       call.category_from_query,
                                       call.primary_category),
                    pdf_output_subdir_name(call.keyword, call.category, call.stem) >>
    /\ UNCHANGED <<progVars, call>>

NextTarget == Call_determine_target_subdir

SpecTarget == InitTarget /\ [][NextTarget]_vars

\* the retry pass looked at a record whose batch file is readable
RederivedFromReadableFile ==
    retval /= << >> /\ call.fn = "determine_target_subdir" /\ call.readable

\* C32 as stated: whatever facets the batch file and the record have, the
\* retry pass re-derives the subdirectory the batch run used.
C32_AsStated ==
    RederivedFromReadableFile => retval[1] = retval[2]

\* no facet of the record is used in place of one the batch file lacks
NoFacetFromRecord ==
    /\ Truthy(call.keyword) \/ ~Truthy(call.keyword_from_query)
    /\ Truthy(call.category)
          \/ (~Truthy(call.category_from_query) /\ ~Truthy(call.primary_category))

\* C32: for a record whose batch file is readable, the retry pass
\* re-derives the subdirectory of the batch run when the batch file has a
\* keyword or a category and every facet the file lacks is absent from the
\* record too (keyword_from_query; category_from_query and
\* primary_category).
C32_RederivedSubdirMatches ==
    (/\ RederivedFromReadableFile
     /\ Truthy(call.keyword) \/ Truthy(call.category)
     /\ NoFacetFromRecord) => retval[1] = retval[2]

\* a batch file with a keyword only and a record that carries other facets
\* of its own: the file's keyword decides and the names agree
C32_Witness ==
    /\ RederivedFromReadableFile
    /\ call.keyword = <<"q">>
    /\ call.category = None
    /\ call.keyword_from_query = <<"z">>
    /\ call.category_from_query = None
    /\ call.primary_category = None
    /\ retval[1] = retval[2]
    /\ retval[1] = KwPrefix \o <<"q">>

(***************************************************************************)
(* The two copies of choose_best_download_url, download.py and retry.py,   *)
(* called with the same arguments and the same results of measure_speed.   *)
(***************************************************************************)
ProberCalls ==
    [fn : {"choose_best_download_url (download.py, retry.py)"},
     entry_id : {IdX, IdY},
     primary_pdf_url : {None, <<"arxiv.org", IdX>>, <<"arxiv.org", IdY>>,
                        ExportMirrorUrl(IdX)},
     s_primary : Speeds,
     s_mirror : Speeds]

InitProber ==
    /\ ProgramNotStarted
    /\ call \in ProberCalls
    /\ retval = << >>

\* retval[1] is what download.py's copy returns, retval[2] what retry.py's
\* copy returns, each with the number of calls of measure_speed it made
Call_both_choose_best_download_url ==
    /\ call.fn = "choose_best_download_url (download.py, retry.py)"
    /\ retval = << >>
    /\ retval' = << choose_best_download_url(call.entry_id, call.primary_pdf_url,
                                             call.s_primary, call.s_mirror),
                    retry_choose_best_download_url(call.entry_id,
                                                   call.primary_pdf_url,
                                                   call.s_primary, call.s_mirror) >>
    /\ UNCHANGED <<progVars, call>>

NextProber == Call_both_choose_best_download_url

SpecProber == InitProber /\ [][NextProber]_vars

\* the candidate set of the call has exactly one URL: no primary URL, or a
\* primary URL that is the mirror URL of the identity
OneCandidate ==
    \/ ~Truthy(call.primary_pdf_url)
    \/ call.primary_pdf_url = ExportMirrorUrl(call.entry_id)

\* C33: with exactly one candidate URL (primary URL absent, or equal to the
\* mirror URL built from the identity) either copy of
\* choose_best_download_url calls measure_speed not once and returns that
\* URL; a copy calls measure_speed only when the primary and the mirror URL
\* are both present and different.
C33_SingleCandidateNotProbed ==
    retval /= << >> =>
        \A copy \in 1..2 :
            /\ OneCandidate =>
                   /\ retval[copy][2] = 0
                   /\ retval[copy][1] = ExportMirrorUrl(call.entry_id)
            /\ retval[copy][2] > 0 =>
                   /\ Truthy(call.primary_pdf_url)
                   /\ call.primary_pdf_url /= ExportMirrorUrl(call.entry_id)

\* the primary URL was the mirror URL itself, and both copies returned it
\* without a call of measure_speed
C33_Witness ==
    /\ call \in ProberCalls
    /\ call.primary_pdf_url = ExportMirrorUrl(call.entry_id)
    /\ retval = << <<call.primary_pdf_url, 0>>, <<call.primary_pdf_url, 0>> >>

\* C38: for every identity, every primary URL (absent, equal to the mirror
\* URL, or different from it) and every pair of results of measure_speed
\* (finite times, equal or not, and +infinity), choose_best_download_url of
\* download.py and choose_best_download_url of retry.py return the same URL.
C38_BothCopiesReturnSameUrl ==
    retval /= << >> => retval[1][1] = retval[2][1]

\* both candidates answered in the same finite time, and both copies
\* returned the primary URL
C38_Witness ==
    /\ call \in ProberCalls
    /\ Truthy(call.primary_pdf_url)
    /\ call.primary_pdf_url /= ExportMirrorUrl(call.entry_id)
    /\ call.s_primary = call.s_mirror
    /\ call.s_primary /= Inf
    /\ retval /= << >>
    /\ retval[1][1] = call.primary_pdf_url
    /\ retval[2][1] = call.primary_pdf_url

(***************************************************************************)
(* The counters of the batch metadata.                                     *)
(***************************************************************************)
\* download_pdfs_from_json has written _metadata.json and returned
MetadataWritten ==
    /\ program = "download"
    /\ mainpc = "returned"
    /\ returned.how = "fanout"

CountersSum ==
    subdir_metadata.downloaded_here_count
    + subdir_metadata.existed_in_subdir_count
    + subdir_metadata.skipped_global_duplicate_count
    + subdir_metadata.failed_download_count

\* C34: when download_pdfs_from_json has written the batch metadata,
\* downloaded_here_count + existed_in_subdir_count +
\* skipped_global_duplicate_count + failed_download_count is the number of
\* records of the batch that carry an entry_id, whatever the order in which
\* the futures completed: every dispatched record was counted once.
C34_CountersSumToDispatched ==
    MetadataWritten => CountersSum = Cardinality(WithIdentity)

\* a batch of three records, one of them without entry_id, has returned:
\* one record was counted as downloaded and one as failed
C34_Witness ==
    /\ MetadataWritten
    /\ Cardinality(Records) = 3
    /\ Cardinality(WithIdentity) = 2
    /\ subdir_metadata.downloaded_here_count = 1
    /\ subdir_metadata.failed_download_count = 1
    /\ Len(returned.list) = 1
    /\ result[1].status = "DOWNLOADED"
    /\ result[2].status = "FAILED"

(***************************************************************************)
(* The files a batch reported and registered, when it returns.             *)
(***************************************************************************)
\* C35: when download_pdfs_from_json returns from its fan-out, every record
\* whose outcome was DOWNLOADED has a file at the path of its detail, and
\* every path held in GLOBAL_EXISTING_PDFS names an existing file: no
\* worker of the batch removed a file another worker reported or
\* registered.
C35_ReportedFilesExistAtReturn ==
    MetadataWritten =>
        /\ \A i \in WithIdentity :
               result[i].status = "DOWNLOADED" => fs[result[i].path] /= "none"
        /\ \A sid \in DOMAIN GLOBAL_EXISTING_PDFS :
               fs[GLOBAL_EXISTING_PDFS[sid]] /= "none"

\* C36: a file of non-zero size that was at a path when the batch or the
\* retry pass started is still there, unchanged, in every state of every
\* interleaving of the workers, and no fetch whose target is that path has
\* started a transfer: the clean-up after a failed transfer removes only a
\* file that was absent or of size 0 at the start.
C36_ExistingArtifactUntouched ==
    \A p \in Paths :
        NonZeroSize(batch_tree[p]) =>
            /\ fs[p] = batch_tree[p]
            /\ \A i \in WithIdentity :
                   Target(i) = p => (net[i].transfers = 0 /\ ~linked[i])

\* one fetch found its non-empty file and returned EXISTED_SUBDIR, the
\* file is still there; another fetch of the batch failed its transfer and
\* its clean-up removed the zero-size file that was at its target
C36_Witness ==
    \E i, j \in WithIdentity :
        /\ batch_tree[Target(i)] = "full"
        /\ result[i].status = "EXISTED_SUBDIR"
        /\ fs[Target(i)] = "full"
        /\ batch_tree[Target(j)] = "empty"
        /\ net[j].transfers = 1
        /\ result[j].status = "FAILED"
        /\ fs[Target(j)] = "none"

(***************************************************************************)
(* What the output tree holds of a record a retry pass dropped.            *)
(***************************************************************************)
\* the records of the pass that are no longer in the ledger
DroppedByRetry ==
    {i \in WithIdentity :
        papers_to_download[i].entry_id \notin IdsOf(ExistingFailuresPapers(ledger))}

\* C37: when a retry pass has ended, every record it dropped from the
\* ledger has a file of non-zero size named after its safe identity in some
\* subdirectory of the output root; a zero-size file the pre-scan found
\* does not make the pass drop a record.
C37_DroppedHasNonEmptyArtifact ==
    RetryPassDone =>
        \A i \in DroppedByRetry :
            \E d \in AllDirs : NonZeroSize(fs[PdfPath(d, SafeIdOf(i))])

====
